---- MODULE Spec2Model ----
(***************************************************************************)
(* Verification model of the T4L Supabase edge functions: the cursor       *)
(* pagination handlers, the language fallback handlers, the timeline and   *)
(* cluster aggregation handlers and their error classification.            *)
(*                                                                         *)
(* Strings that the code parses or builds (query parameters, cursor        *)
(* tokens) are sequences of one-character strings.  An absent query        *)
(* parameter and an empty one are both the empty sequence: every handler   *)
(* tests them with a truthiness check.  Timestamps are natural numbers,    *)
(* written in tokens as decimal digits.                                    *)
(***************************************************************************)
EXTENDS Integers, Sequences, FiniteSets, TLC

VARIABLES handler, db, client, req, resp, fetched, log, faults, cache, now, pending

vars == <<handler, db, client, req, resp, fetched, log, faults, cache, now, pending>>

\* ---------------------------------------------------------------- bounds
MaxId == 3
MaxTs == 2
MaxLimit == 3
MaxPages == 5

\* ------------------------------------------------------ program constants
ArticlePreviewsDefaultLimit == 25
ArticlePreviewsTeamDefaultLimit == 20
ArticlePreviewsTeamMaxLimit == 100
TeamArticlesDefaultLimit == 25
ClusterInfosDefaultLimit == 20
ClusterInfosMaxLimit == 100
ClusterStoriesDefaultLimit == 10
ClusterStoriesMaxLimit == 50
ClusterArticlesDefaultLimit == 20
ClusterArticlesMaxLimit == 100
InjuriesDefaultLimit == 20

\* ------------------------------------------------------------- strings
DigitChars == <<"0", "1", "2", "3", "4", "5", "6", "7", "8", "9">>

IsDigit(c) == \E i \in 1..10 : DigitChars[i] = c

DigitVal(c) == (CHOOSE i \in 1..10 : DigitChars[i] = c) - 1

RECURSIVE NatToStr(_)
NatToStr(n) ==
  IF n < 10 THEN <<DigitChars[n + 1]>>
  ELSE NatToStr(n \div 10) \o <<DigitChars[(n % 10) + 1]>>

\* String(n) / template-literal interpolation of a number.
ToStr(n) == IF n < 0 THEN <<"-">> \o NatToStr(0 - n) ELSE NatToStr(n)

\* Length of the longest prefix of s made of digits.
RECURSIVE DigitPrefixLen(_)
DigitPrefixLen(s) ==
  IF s = <<>> \/ ~IsDigit(Head(s)) THEN 0 ELSE 1 + DigitPrefixLen(Tail(s))

RECURSIVE DigitsVal(_, _)
DigitsVal(s, acc) ==
  IF s = <<>> THEN acc ELSE DigitsVal(Tail(s), acc * 10 + DigitVal(Head(s)))

RECURSIVE SkipSpaces(_)
SkipSpaces(s) == IF s # <<>> /\ Head(s) = " " THEN SkipSpaces(Tail(s)) ELSE s

\* parseInt(s, 10): leading blanks, an optional sign, then the longest run
\* of digits; NaN when there is no digit.  Signed reads the sign and the
\* digits of t, the string without its leading blanks.
ParseInt(s) ==
  LET Signed(t) ==
        LET neg == t # <<>> /\ Head(t) = "-"
            u == IF t # <<>> /\ Head(t) \in {"-", "+"} THEN Tail(t) ELSE t
            n == DigitPrefixLen(u)
        IN IF n = 0 THEN [nan |-> TRUE, val |-> 0]
           ELSE LET v == DigitsVal(SubSeq(u, 1, n), 0)
                IN [nan |-> FALSE, val |-> IF neg THEN 0 - v ELSE v]
  IN CHOOSE r \in {Signed(t) : t \in {SkipSpaces(s)}} : TRUE

\* s.split(d) for a one-character delimiter d.
RECURSIVE Split(_, _)
Split(s, d) ==
  IF \A i \in 1..Len(s) : s[i] # d THEN <<s>>
  ELSE LET k == CHOOSE i \in 1..Len(s) : s[i] = d /\ \A j \in 1..(i - 1) : s[j] # d
       IN <<SubSeq(s, 1, k - 1)>> \o Split(SubSeq(s, k + 1, Len(s)), d)

\* A value the store accepts as a number / timestamp literal in a filter.
IsNumeric(s) == s # <<>> /\ \A i \in 1..Len(s) : IsDigit(s[i])

\* ------------------------------------------------------- sequences, sorting
Min(a, b) == IF a < b THEN a ELSE b

Take(s, n) == SubSeq(s, 1, Min(n, Len(s)))

Range(s) == {s[i] : i \in 1..Len(s)}

Perms(S) == {p \in [1..Cardinality(S) -> S] : Range(p) = S}

Pos(perm, r) == CHOOSE i \in 1..Len(perm) : perm[i] = r

\* a sorts before b under a two-component key, both components descending.
KeyBefore(ka, kb) == ka[1] > kb[1] \/ (ka[1] = kb[1] /\ ka[2] > kb[2])

\* The rows of S in descending order of key[r]; keys are distinct.  S and
\* key are bound to their values once, then the one ordering is chosen.
SortDesc(S, key) ==
  LET Sorted(T, k) ==
        CHOOSE p \in Perms(T) :
          \A i, j \in 1..Len(p) : i < j => KeyBefore(k[p[i]], k[p[j]])
  IN CHOOSE s \in {Sorted(T, k) : T \in {S}, k \in {key}} : TRUE

\* ORDER BY created_at DESC, id DESC: a total order.
OrderTsIdDesc(S) == SortDesc(S, [r \in S |-> <<r.ts, r.id>>])

\* ORDER BY <timestamp> DESC alone: rows with equal timestamps come in the
\* order the store happens to scan them (perm), which the query does not fix.
OrderTsDesc(S, perm) == SortDesc(S, [r \in S |-> <<r.ts, 0 - Pos(perm, r)>>])

\* ORDER BY id ASC.
OrderIdAsc(S) == SortDesc(S, [r \in S |-> <<0 - r.id, 0>>])

\* ------------------------------------------------------ store fetch results
\* The outcome of one fetch: ok, or the error object supabase-js returns
\* (code, HTTP status of the store's reply, message).
NoError == [failed |-> FALSE, code |-> "", http |-> 200, msg |-> ""]

StoreErrors ==
  { [failed |-> TRUE, code |-> "PGRST301", http |-> 401, msg |-> "JWT expired"],
    [failed |-> TRUE, code |-> "42501", http |-> 403, msg |-> "permission denied for table"],
    [failed |-> TRUE, code |-> "42501", http |-> 401, msg |-> "new row violates security barrier"],
    [failed |-> TRUE, code |-> "PGRST000", http |-> 503, msg |-> "could not connect"],
    [failed |-> TRUE, code |-> "42703", http |-> 400, msg |-> "column does not exist"],
    [failed |-> TRUE, code |-> "42P01", http |-> 404, msg |-> "relation does not exist"],
    [failed |-> TRUE, code |-> "57014", http |-> 500, msg |-> "statement timeout"] }

\* What a handler may put in front of a store message before it is examined.
MessagePrefixes == {"", "Database error fetching injuries: "}

\* message.includes(...), over the messages of StoreErrors
Includes(msg, texts) == \E pre \in MessagePrefixes, t \in texts : msg = pre \o t
IncludesJWT(msg) == Includes(msg, {"JWT expired"})
IncludesSecurityBarrier(msg) == Includes(msg, {"new row violates security barrier"})
IncludesRelation(msg) == Includes(msg, {"relation does not exist"})

\* What .single() reports when the filter matches no row.
NoRowsError ==
  [failed |-> TRUE, code |-> "PGRST116", http |-> 406, msg |-> "JSON object requested, multiple (or no) rows returned"]

\* ------------------------------------------------------------- responses
NoCursor == <<>>

Page(data, nextCursor) ==
  [status |-> 200, error |-> "", data |-> data, nextCursor |-> nextCursor]

Fail(status, error) ==
  [status |-> status, error |-> error, data |-> <<>>, nextCursor |-> NoCursor]

\* What a handler run yields: the response, the rows of the primary fetch
\* and the fetches it issued, in order.
Run(r, rows, fetches) == [resp |-> r, fetched |-> rows, log |-> fetches]

Fetch(table, ids) == [table |-> table, ids |-> ids]

\* ----------------------------------------------------- request parameters
\* limitParam ? parseInt(limitParam, 10) : <default>
ParseLimit(limitParam, default) ==
  IF limitParam # <<>> THEN ParseInt(limitParam) ELSE [nan |-> FALSE, val |-> default]

\* cursorParam ? parseInt(cursorParam, 10) : null
ParseCursor(cursorParam) ==
  IF cursorParam # <<>>
  THEN LET p == ParseInt(cursorParam) IN [null |-> FALSE, nan |-> p.nan, val |-> p.val]
  ELSE [null |-> TRUE, nan |-> FALSE, val |-> 0]

\* The environment of one request: the scan order of the store for rows the
\* query leaves unordered, and the error (if any) of each fetch by label.
ErrOf(env, label) == IF label \in DOMAIN env.errs THEN env.errs[label] ELSE NoError

Last(s) == s[Len(s)]

\* ------------------------------------------- articlePreviews (three variants)
\* nextCursor: the id of the last row iff the fetch returned limit rows.
ArticlePreviewsNextCursor(typedData, limit) ==
  IF Len(typedData) = limit /\ Len(typedData) > 0
  THEN ToStr(Last(typedData).id)
  ELSE NoCursor

\* .order(created_at desc).order(id desc).limit(limit) [.lt("id", cursor)]
ArticlePreviewsQuery(rows, cursor, limit) ==
  Take(OrderTsIdDesc({r \in rows : cursor.null \/ r.id < cursor.val}), limit)

\* articlePreviews, request-scoped client.
ArticlePreviews(q, d, env) ==
  LET limit == ParseLimit(q.limit, ArticlePreviewsDefaultLimit)
      cursor == ParseCursor(q.cursor)
      err == ErrOf(env, "NewsArticles")
      typedData == ArticlePreviewsQuery(d.rows, cursor, limit.val)
      issued == <<Fetch("NewsArticles", {})>>
  IN IF limit.nan \/ limit.val <= 0
     THEN Run(Fail(400, "Invalid limit parameter"), <<>>, <<>>)
     ELSE IF ~cursor.null /\ cursor.nan
     THEN Run(Fail(400, "Invalid cursor parameter"), <<>>, <<>>)
     ELSE IF err.failed
     THEN Run(Fail(500, "An unexpected error occurred. Please try again later."), <<>>, issued)
     ELSE Run(Page(typedData, ArticlePreviewsNextCursor(typedData, limit.val)),
              typedData, issued)

\* articlePreviews, service-role client: the error message is passed on.
ArticlePreviewsServiceRole(q, d, env) ==
  LET limit == ParseLimit(q.limit, ArticlePreviewsDefaultLimit)
      cursor == ParseCursor(q.cursor)
      err == ErrOf(env, "NewsArticles")
      typedData == ArticlePreviewsQuery(d.rows, cursor, limit.val)
      issued == <<Fetch("NewsArticles", {})>>
  IN IF limit.nan \/ limit.val <= 0
     THEN Run(Fail(400, "Invalid limit parameter"), <<>>, <<>>)
     ELSE IF ~cursor.null /\ cursor.nan
     THEN Run(Fail(400, "Invalid cursor parameter"), <<>>, <<>>)
     ELSE IF err.failed
     THEN Run(Fail(500, err.msg), <<>>, issued)
     ELSE Run(Page(typedData, ArticlePreviewsNextCursor(typedData, limit.val)),
              typedData, issued)

\* articlePreviews with the optional team filter, limit capped at 100.
ArticlePreviewsTeam(q, d, env) ==
  LET limit == ParseLimit(q.limit, ArticlePreviewsTeamDefaultLimit)
      cursor == ParseCursor(q.cursor)
      err == ErrOf(env, "NewsArticles")
      typedData == ArticlePreviewsQuery(d.rows, cursor, limit.val)
      issued == <<Fetch("NewsArticles", {})>>
  IN IF limit.nan \/ limit.val <= 0 \/ limit.val > ArticlePreviewsTeamMaxLimit
     THEN Run(Fail(400, "Invalid limit parameter (must be 1-100)"), <<>>, <<>>)
     ELSE IF ~cursor.null /\ (cursor.nan \/ cursor.val < 0)
     THEN Run(Fail(400, "Invalid cursor parameter"), <<>>, <<>>)
     ELSE IF err.failed
     THEN IF err.http = 401 \/ err.http = 403 \/ IncludesSecurityBarrier(err.msg)
          THEN Run(Fail(403, "Authorization failed."), <<>>, issued)
          ELSE Run(Fail(500, "Failed to fetch articles. Database error."), <<>>, issued)
     ELSE Run(Page(typedData, ArticlePreviewsNextCursor(typedData, limit.val)),
              typedData, issued)

\* ------------------------------------------------------------ teamArticles
TeamArticlesNextCursor(typedData, limit) ==
  IF Len(typedData) = limit /\ Len(typedData) > 0
  THEN ToStr(Last(typedData).id)
  ELSE NoCursor

\* The catch block: the message depends on the error, the status is 500.
TeamArticlesCatch(err) ==
  IF err.code = "PGRST301" THEN Fail(500, "Authorization error.")
  ELSE IF IncludesRelation(err.msg) THEN Fail(500, "Invalid query parameter.")
  ELSE Fail(500, "Failed to fetch team articles.")

TeamArticles(q, d, env) ==
  LET limit == ParseLimit(q.limit, TeamArticlesDefaultLimit)
      cursor == ParseCursor(q.cursor)
      err == ErrOf(env, "TeamNewsArticles")
      typedData ==
        Take(OrderTsIdDesc({r \in d.rows : cursor.null \/ r.id < cursor.val}), limit.val)
      issued == <<Fetch("TeamNewsArticles", {})>>
  IN IF q.team = <<>>
     THEN Run(Fail(400, "Missing teamId parameter"), <<>>, <<>>)
     ELSE IF limit.nan \/ limit.val <= 0
     THEN Run(Fail(400, "Invalid limit parameter"), <<>>, <<>>)
     ELSE IF ~cursor.null /\ cursor.nan
     THEN Run(Fail(400, "Invalid cursor parameter"), <<>>, <<>>)
     ELSE IF err.failed
     THEN Run(TeamArticlesCatch(err), <<>>, issued)
     ELSE Run(Page(typedData, TeamArticlesNextCursor(typedData, limit.val)),
              typedData, issued)

\* ------------------------------------------------------------ cluster_infos
\* The store rejects a filter value that is no literal of the column's type.
InvalidInput ==
  [failed |-> TRUE, code |-> "22P02", http |-> 400, msg |-> "invalid input syntax"]

ClusterInfosNextCursor(typedData, limit) ==
  IF Len(typedData) = limit /\ Len(typedData) > 0
  THEN ToStr(Last(typedData).id)
  ELSE NoCursor

ClusterInfos(q, d, env) ==
  LET limit == ParseLimit(q.limit, ClusterInfosDefaultLimit)
      cursor == q.cursor
      err == IF ErrOf(env, "clusters").failed THEN ErrOf(env, "clusters")
             ELSE IF cursor # <<>> /\ ~IsNumeric(cursor) THEN InvalidInput
             ELSE NoError
      matching ==
        {r \in d.rows : cursor = <<>> \/ r.id < ParseInt(cursor).val}
      typedData == Take(OrderTsDesc(matching, env.perm), limit.val)
      issued == <<Fetch("clusters", {})>>
  IN IF limit.nan \/ limit.val <= 0 \/ limit.val > ClusterInfosMaxLimit
     THEN Run(Fail(400, "Invalid limit parameter (must be 1-100)"), <<>>, <<>>)
     ELSE IF err.failed
     THEN IF err.http = 401 \/ err.http = 403 \/ IncludesSecurityBarrier(err.msg)
          THEN Run(Fail(403, "Authorization failed."), <<>>, issued)
          ELSE Run(Fail(500, "Failed to fetch cluster data. Database error."), <<>>, issued)
     ELSE Run(Page(typedData, ClusterInfosNextCursor(typedData, limit.val)),
              typedData, issued)

\* ----------------------------------------------------------- clusterStories
Null == "NULL"

\* A faulty variant of ClusterStoriesNextCursor: a cursor for every non-empty page.
ClusterStoriesNextCursorAnyPage(clusterStories, limit) ==
  IF Len(clusterStories) > 0
  THEN ToStr(clusterStories[Len(clusterStories)].ts) \o <<"_">>
         \o ToStr(clusterStories[Len(clusterStories)].id)
  ELSE <<>>

\* A faulty variant of ClusterStoriesNextCursor: the id comes first.
ClusterStoriesNextCursorIdFirst(clusterStories, limit) ==
  IF Len(clusterStories) = limit
  THEN ToStr(clusterStories[Len(clusterStories)].id) \o <<"_">>
         \o ToStr(clusterStories[Len(clusterStories)].ts)
  ELSE <<>>

\* `${lastItem.updated_at}_${lastItem.id}` iff the fetch returned limit rows.
ClusterStoriesNextCursor(clusterStories, limit) ==
  IF Len(clusterStories) = limit
  THEN ToStr(Last(clusterStories).ts) \o <<"_">> \o ToStr(Last(clusterStories).id)
  ELSE NoCursor

\* A faulty variant of ClusterStoriesFilter: the row at the cursor passes.
ClusterStoriesFilterInclusive(r, cursorTimestamp, cursorId) ==
  \/ r.ts < ParseInt(cursorTimestamp).val
  \/ r.ts = ParseInt(cursorTimestamp).val /\ r.id <= ParseInt(cursorId).val

\* .or(`updated_at.lt.T,and(updated_at.eq.T,id.lt.I)`)
ClusterStoriesFilter(r, cursorTimestamp, cursorId) ==
  \/ r.ts < ParseInt(cursorTimestamp).val
  \/ r.ts = ParseInt(cursorTimestamp).val /\ r.id < ParseInt(cursorId).val

\* .order("updated_at", desc).limit(limit), with the cursor filter if any.
ClusterStoriesQuery(rows, parts, perm, limit) ==
  Take(OrderTsDesc({r \in rows : parts = <<>> \/ ClusterStoriesFilter(r, parts[1], parts[2])},
                   perm), limit)

\* The loop over the fetched stories: one SourceArticles lookup per story
\* that has source ids; a story whose lookup fails is skipped (continue).
RECURSIVE ClusterStoriesLoop(_, _, _)
ClusterStoriesLoop(stories, d, env) ==
  IF stories = <<>> THEN [items |-> <<>>, log |-> <<>>]
  ELSE LET story == Head(stories)
           rest == ClusterStoriesLoop(Tail(stories), d, env)
           found == {[id |-> a.id, newsSourceId |-> a.source] :
                       a \in {x \in d.sources : x.id \in story.srcIds}}
           item(srcs) == [id |-> story.id, ts |-> story.ts, sourceArticles |-> srcs]
       IN IF story.srcIds = {}
          THEN [items |-> <<item({})>> \o rest.items, log |-> rest.log]
          ELSE IF story.id \in env.failIds
          THEN [items |-> rest.items,
                log |-> <<Fetch("SourceArticles", story.srcIds)>> \o rest.log]
          ELSE [items |-> <<item(found)>> \o rest.items,
                log |-> <<Fetch("SourceArticles", story.srcIds)>> \o rest.log]

ClusterStories(q, d, env) ==
  LET limit == ParseLimit(q.limit, ClusterStoriesDefaultLimit)
      cursor == q.cursor
      parts == IF cursor # <<>> THEN Split(cursor, "_") ELSE <<>>
      err == IF ErrOf(env, "ClusterStories").failed THEN ErrOf(env, "ClusterStories")
             ELSE IF cursor # <<>> /\ (~IsNumeric(parts[1]) \/ ~IsNumeric(parts[2]))
             THEN InvalidInput
             ELSE NoError
      clusterStories == ClusterStoriesQuery(d.rows, parts, env.perm, limit.val)
      issued == <<Fetch("ClusterStories", {})>>
      loop == ClusterStoriesLoop(clusterStories, d, env)
  IN IF limit.nan \/ limit.val <= 0 \/ limit.val > ClusterStoriesMaxLimit
     THEN Run(Fail(400, "Invalid limit parameter (must be 1-50)"), <<>>, <<>>)
     ELSE IF cursor # <<>> /\ Len(parts) # 2
     THEN Run(Fail(400, "Invalid cursor format"), <<>>, <<>>)
     ELSE IF err.failed
     THEN Run([Fail(500, "Failed to fetch cluster stories")
                 EXCEPT !.data = <<[code |-> err.code, message |-> err.msg]>>],
              <<>>, issued)
     ELSE IF clusterStories = <<>>
     THEN Run(Page(<<>>, NoCursor), <<>>, issued)
     ELSE Run(Page(loop.items, ClusterStoriesNextCursor(clusterStories, limit.val)),
              clusterStories, issued \o loop.log)

\* ---------------------------------------------------------- cluster_articles
\* isNaN(new Date(cursor).getTime()) is false: timestamps are digit strings.
ValidDate(s) == IsNumeric(s)

ClusterArticlesNextCursor(clusterArticlesData, pageSize) ==
  IF Len(clusterArticlesData) = pageSize
  THEN ToStr(Last(clusterArticlesData).ts)
  ELSE NoCursor

\* .in("cluster_id", ids).order("created_at", desc).limit(n) [.lt(created_at)]
ClusterArticlesQuery(rows, clusterIds, cursor, perm, pageSize) ==
  Take(OrderTsDesc({r \in rows : /\ r.cluster \in clusterIds
                                 /\ (cursor = <<>> \/ r.ts < ParseInt(cursor).val)},
                   perm), pageSize)

\* The source infos of one article: those found in the map with a name and
\* a date, newest first (a stable sort of the article's id order).
RECURSIVE SourceInfos(_, _)
SourceInfos(ids, sourceInfoMap) ==
  IF ids = <<>> THEN <<>>
  ELSE LET hit == {x \in sourceInfoMap : x.id = Head(ids)}
           info == CHOOSE x \in hit : TRUE
       IN IF hit # {} /\ info.name # Null /\ info.ts # 0
          THEN <<[name |-> info.name, created_at |-> info.ts, idx |-> Len(ids)]>>
                 \o SourceInfos(Tail(ids), sourceInfoMap)
          ELSE SourceInfos(Tail(ids), sourceInfoMap)

SortSources(infos) ==
  LET S == Range(infos)
      sorted == SortDesc(S, [x \in S |-> <<x.created_at, x.idx>>])
  IN [i \in 1..Len(sorted) |->
        [name |-> sorted[i].name, created_at |-> sorted[i].created_at]]

\* Step 4: one output item per primary row.
FormatArticle(ca, intlDataMap, sourceInfoMap) ==
  [id |-> ca.id,
   ts |-> ca.ts,
   english_headline |-> ca.headline,
   english_summary |-> ca.summary,
   english_content |-> ca.content,
   image_url |-> ca.image_url,
   sources |-> SortSources(SourceInfos(ca.srcIds, sourceInfoMap)),
   intl |-> {[lang |-> t.lang, headline |-> t.headline,
              summary |-> t.summary, content |-> t.content] :
               t \in {x \in intlDataMap : x.article = ca.id}}]

\* A faulty variant of SecondaryData: the rows are passed on despite an error.
SecondaryDataDespiteError(error, rows) == rows

\* What a secondary fetch contributes to the lookup maps: its rows, or
\* nothing when it failed (the failure is only logged).
SecondaryData(error, rows) == IF error.failed THEN {} ELSE rows

\* clusterArticlesData.flatMap(ca => ca.source_article_ids || [])
RECURSIVE FlatMap(_)
FlatMap(rows) ==
  IF rows = <<>> THEN <<>> ELSE Head(rows).srcIds \o FlatMap(Tail(rows))

\* [...new Set(list)]: the first occurrence of every element, in order.
RECURSIVE Distinct(_)
Distinct(list) ==
  IF list = <<>> THEN <<>>
  ELSE LET init == Distinct(SubSeq(list, 1, Len(list) - 1))
           x == list[Len(list)]
       IN IF x \in Range(init) THEN init ELSE Append(init, x)

\* A faulty variant of FlatIds: the ids are not deduplicated.
FlatIdsWithDuplicates(rows) == FlatMap(rows)

\* allSourceArticleIds
FlatIds(rows) == Distinct(FlatMap(rows))

ClusterArticles(q, d, env) ==
  LET cursor == q.cursor
      pageSize == ParseLimit(q.limit, ClusterArticlesDefaultLimit)
      clusterError == ErrOf(env, "clusters")
      clusterIds == {c.cluster_id : c \in {x \in d.clusters : ~x.cherry_pick}}
      clusterArticlesError ==
        IF ErrOf(env, "cluster_articles").failed THEN ErrOf(env, "cluster_articles")
        ELSE NoError
      clusterArticlesData ==
        ClusterArticlesQuery(d.rows, clusterIds, cursor, env.perm, pageSize.val)
      articleIds == {clusterArticlesData[i].id : i \in 1..Len(clusterArticlesData)}
      allSourceArticleIds == FlatIds(clusterArticlesData)
      intlDataMap == SecondaryData(ErrOf(env, "cluster_article_int"),
                                   {t \in d.intl : t.article \in articleIds})
      sourceInfoMap == SecondaryData(ErrOf(env, "SourceArticles"),
                                     {x \in d.sources : x.id \in Range(allSourceArticleIds)})
      first == <<Fetch("clusters", {})>>
      second == first \o <<Fetch("cluster_articles", clusterIds)>>
      secondary ==
        <<Fetch("cluster_article_int", articleIds)>>
          \o (IF allSourceArticleIds # <<>>
              THEN <<Fetch("SourceArticles", allSourceArticleIds)>> ELSE <<>>)
      formattedArticles ==
        [i \in 1..Len(clusterArticlesData) |->
           FormatArticle(clusterArticlesData[i], intlDataMap, sourceInfoMap)]
  IN IF pageSize.nan \/ pageSize.val <= 0 \/ pageSize.val > ClusterArticlesMaxLimit
     THEN Run(Fail(400, "Invalid limit parameter. Must be between 1 and 100."), <<>>, <<>>)
     ELSE IF cursor # <<>> /\ ~ValidDate(cursor)
     THEN Run(Fail(400, "Invalid cursor parameter. Must be a valid ISO date string."),
              <<>>, <<>>)
     ELSE IF clusterError.failed
     THEN Run(Fail(500, "Failed to fetch non-cherry-picked clusters: " \o clusterError.msg),
              <<>>, first)
     ELSE IF clusterIds = {}
     THEN Run(Page(<<>>, NoCursor), <<>>, first)
     ELSE IF clusterArticlesError.failed
     THEN Run(Fail(500, "Failed to fetch cluster articles: " \o clusterArticlesError.msg),
              <<>>, second)
     ELSE IF clusterArticlesData = <<>>
     THEN Run(Page(<<>>, NoCursor), <<>>, second)
     ELSE Run(Page(formattedArticles,
                   ClusterArticlesNextCursor(clusterArticlesData, pageSize.val)),
              clusterArticlesData, second \o secondary)

\* ------------------------------------------------------------------ injuries
\* status_mapping[injury.status] || injury.status || 'Unknown'
StatusMapping(status) ==
  CASE status = "I.L." -> "Injury Reserve"
    [] status = "PUP" -> "Physically Unable to Perform"
    [] status = "NFI" -> "Non-Football Injury"
    [] status = "IR" -> "Injured Reserve"
    [] status = "Sidelined" -> "Sideline"
    [] status \in {Null, ""} -> "Unknown"
    [] OTHER -> status

\* A faulty variant of InjuriesNextCursor: an empty page carries a cursor too.
InjuriesNextCursorOnEmptyPage(mapped) ==
  IF Len(mapped) > 0 THEN ToStr(mapped[Len(mapped)].id) ELSE <<"1">>

\* mapped.length > 0 ? mapped[mapped.length - 1].id : null
InjuriesNextCursor(mapped) ==
  IF Len(mapped) > 0 THEN ToStr(Last(mapped).id) ELSE NoCursor

\* .eq("team", id).order("id", asc).limit(limit), .gt("id", cursor) when the
\* cursor is truthy (neither null nor 0).
InjuriesQuery(rows, team, cursor, limit) ==
  Take(OrderIdAsc({r \in rows : /\ r.team = team
                                /\ (cursor.null \/ cursor.val = 0 \/ r.id > cursor.val)}),
       limit)

\* The catch block of the injuries handler; thrown is the error object
\* (code is "" for a plain Error).
InjuriesCatch(thrown) ==
  IF thrown.code = "PGRST301" \/ IncludesJWT(thrown.msg)
  THEN Fail(401, "Authorization error.")
  ELSE IF thrown.msg # "" THEN Fail(500, "Error: " \o thrown.msg)
  ELSE Fail(500, "An internal server error occurred.")

\* One Player lookup per injury (.maybeSingle()); an error or no row leaves
\* the player fields null.
MapInjury(injury, q, d, env) ==
  LET hit == {p \in d.players : p.id = injury.player}
      playerObject == IF injury.player = 0 \/ injury.id \in env.failIds \/ hit = {}
                      THEN [name |-> Null, img_url |-> Null]
                      ELSE CHOOSE p \in hit : TRUE
  IN [id |-> injury.id,
      ts |-> injury.ts,
      teamId |-> q.team,
      playerName |-> playerObject.name,
      playerImgUrl |-> playerObject.img_url,
      status |-> StatusMapping(injury.status)]

Injuries(q, d, env) ==
  LET cursor == ParseCursor(q.cursor)
      limit == ParseInt(IF q.limit # <<>> THEN q.limit ELSE ToStr(InjuriesDefaultLimit))
      teamIdError == ErrOf(env, "Teams")
      teams == {t \in d.teams : t.teamId = q.team}
      teamIntegerIdFilter == (CHOOSE t \in teams : TRUE).id
      injuriesError == ErrOf(env, "Injuries")
      injuriesData == InjuriesQuery(d.rows, teamIntegerIdFilter, cursor, limit.val)
      lookups == [i \in 1..Len(injuriesData) |->
                    Fetch("Player", {injuriesData[i].player})]
      issuedLookups == SelectSeq(lookups, LAMBDA f : f.ids # {0})
      mapped == [i \in 1..Len(injuriesData) |-> MapInjury(injuriesData[i], q, d, env)]
      first == <<Fetch("Teams", {})>>
      second == first \o <<Fetch("Injuries", {})>>
  IN IF limit.nan \/ limit.val < 1
     THEN Run(Fail(400, "Invalid limit parameter"), <<>>, <<>>)
     ELSE IF ~cursor.null /\ cursor.nan
     THEN Run(Fail(400, "Invalid cursor parameter"), <<>>, <<>>)
     ELSE IF SkipSpaces(q.team) = <<>>
     THEN Run(Fail(400, "Missing required team parameter (abbreviation)"), <<>>, <<>>)
     ELSE IF teamIdError.failed /\ teamIdError.code # "PGRST116"
     THEN Run(InjuriesCatch(teamIdError), <<>>, first)
     ELSE IF Cardinality(teams) # 1
     THEN Run(Fail(404, "Invalid team abbreviation provided"), <<>>, first)
     ELSE IF teamIntegerIdFilter = 0
     THEN Run(Fail(404, "Team abbreviation not found or inaccessible"), <<>>, first)
     ELSE IF injuriesError.failed
     THEN Run(InjuriesCatch([code |-> "",
                             msg |-> "Database error fetching injuries: "
                                       \o injuriesError.msg]),
              <<>>, second)
     ELSE Run(Page(mapped, InjuriesNextCursor(mapped)), injuriesData,
              second \o issuedLookups)

\* The older injuries handler: the player comes with the row (a join), the
\* parameters are not validated, the store sees them as given.
InjuriesJoinNextCursor(mapped) ==
  IF Len(mapped) > 0 THEN ToStr(Last(mapped).id) ELSE NoCursor

InjuriesJoin(q, d, env) ==
  LET limit == ParseInt(IF q.limit # <<>> THEN q.limit ELSE ToStr(InjuriesDefaultLimit))
      cursor == q.cursor
      error == IF ErrOf(env, "Injuries").failed THEN ErrOf(env, "Injuries")
               ELSE IF limit.nan \/ limit.val < 0 THEN InvalidInput
               ELSE IF cursor # <<>> /\ ~IsNumeric(cursor) THEN InvalidInput
               ELSE IF q.team # <<>> /\ ~IsNumeric(q.team) THEN InvalidInput
               ELSE NoError
      matching == {r \in d.rows :
                     /\ (q.team = <<>> \/ r.team = ParseInt(q.team).val)
                     /\ (cursor = <<>> \/ r.id > ParseInt(cursor).val)}
      data == Take(OrderIdAsc(matching), limit.val)
      player(r) == LET hit == {p \in d.players : p.id = r.player}
                   IN IF hit = {} THEN [name |-> Null, img_url |-> Null]
                      ELSE CHOOSE p \in hit : TRUE
      mapped == [i \in 1..Len(data) |->
                   [id |-> data[i].id,
                    ts |-> data[i].ts,
                    teamId |-> data[i].team,
                    playerName |-> player(data[i]).name,
                    playerImgUrl |-> player(data[i]).img_url,
                    status |-> IF data[i].status \in {Null, ""} THEN data[i].status
                               ELSE StatusMapping(data[i].status)]]
      issued == <<Fetch("Injuries", {})>>
  IN IF error.failed
     THEN Run(Fail(500, error.msg), <<>>, issued)
     ELSE Run(Page(mapped, InjuriesJoinNextCursor(mapped)), data, issued)

\* ---------------------------------------------------- single-row handlers
Ok(body) == [status |-> 200, error |-> "", data |-> body, nextCursor |-> NoCursor]

\* .single(): the row when exactly one matches, else the PGRST116 error; a
\* failing fetch reports its own error.
Single(matches, err) ==
  IF err.failed THEN [error |-> err, data |-> Null]
  ELSE IF Cardinality(matches) # 1 THEN [error |-> NoRowsError, data |-> Null]
  ELSE [error |-> NoError, data |-> CHOOSE m \in matches : TRUE]

\* .maybeSingle(): like .single(), but no matching row is no error.
MaybeSingle(matches, err) ==
  IF matches = {} /\ ~err.failed THEN [error |-> NoError, data |-> Null]
  ELSE Single(matches, err)

\* news-ticker: the rows of the last seven days; any store error is
\* answered 400 with the store's message.
NewsTicker(q, d, env) ==
  LET error == ErrOf(env, "NewsTicker")
      data == SelectSeq(env.perm, LAMBDA r : r.ts >= d.sevenDaysAgo)
      issued == <<Fetch("NewsTicker", {})>>
  IN IF error.failed
     THEN Run(Fail(400, error.msg), <<>>, issued)
     ELSE Run(Ok(data), data, issued)

\* articleDetail: .single() by id; PGRST116 is 404, an authorization error
\* 401, every other error 500.
ArticleDetail(q, d, env) ==
  LET articleId == ParseInt(q.id)
      found == Single({r \in d.rows : r.id = articleId.val}, ErrOf(env, "NewsArticles"))
      error == found.error
      isAuthError == error.code = "PGRST301" \/ IncludesJWT(error.msg)
      issued == <<Fetch("NewsArticles", {q.id})>>
  IN IF q.id = <<>>
     THEN Run(Fail(400, "Missing required parameter: id"), <<>>, <<>>)
     ELSE IF articleId.nan
     THEN Run(Fail(400, "Invalid parameter: id must be a number"), <<>>, <<>>)
     ELSE IF error.failed
     THEN IF error.code = "PGRST116"
          THEN Run(Fail(404, "Article not found or not accessible"), <<>>, issued)
          ELSE IF isAuthError
          THEN Run(Fail(401, "Authorization error."), <<>>, issued)
          ELSE Run(Fail(500, "Failed to fetch article detail."), <<>>, issued)
     ELSE Run(Ok([id |-> found.data.id, createdAt |-> found.data.ts]),
              <<found.data>>, issued)

\* cluster_summary_by_id: .single() on cluster_summary; any error it reports
\* is answered 500; the image and the German translation are optional.
ClusterSummaryById(q, d, env) ==
  LET cluster_id == q.id
      summary == Single({s \in d.rows : ToStr(s.cluster) = cluster_id},
                        ErrOf(env, "cluster_summary"))
      summaryData == summary.data
      image == Single({i \in d.images : ToStr(i.cluster) = cluster_id},
                      ErrOf(env, "cluster_images"))
      translations == {t \in d.intl : t.parent = summaryData.id /\ t.lang = "de"}
      translation == MaybeSingle(translations, ErrOf(env, "cluster_summary_int"))
      first == <<Fetch("cluster_summary", {cluster_id})>>
      issued == first \o <<Fetch("cluster_images", {cluster_id}),
                           Fetch("cluster_summary_int", {ToStr(summaryData.id)})>>
  IN IF cluster_id = <<>>
     THEN Run(Fail(400, "cluster_id is required"), <<>>, <<>>)
     ELSE IF summary.error.failed
     THEN Run(Fail(500, "Error fetching cluster summary"), <<>>, first)
     ELSE Run(Ok([headline |-> summaryData.headline,
                  content |-> summaryData.content,
                  image_url |-> IF image.error.failed \/ image.data.image_url = ""
                                THEN Null ELSE image.data.image_url,
                  de |-> IF translation.error.failed \/ translations = {} THEN <<>>
                         ELSE <<[headline |-> translation.data.headline,
                                 content |-> translation.data.content]>>]),
              <<summaryData>>, issued)

\* team_view_by_id: .single() on cluster_team_view; any error it reports is
\* answered 500; the translations are optional.
TeamViewById(q, d, env) ==
  LET cluster_id == q.id
      teamView == Single({v \in d.rows : ToStr(v.cluster) = cluster_id},
                         ErrOf(env, "cluster_team_view"))
      teamViewData == teamView.data
      translationData ==
        IF ErrOf(env, "cluster_team_view_int").failed THEN {}
        ELSE {t \in d.intl : t.parent = teamViewData.id /\ t.lang = "de"}
      german == CHOOSE t \in translationData : TRUE
      first == <<Fetch("cluster_team_view", {cluster_id})>>
      issued == first \o <<Fetch("cluster_team_view_int", {ToStr(teamViewData.id)})>>
  IN IF cluster_id = <<>>
     THEN Run(Fail(400, "cluster_id is required"), <<>>, <<>>)
     ELSE IF teamView.error.failed
     THEN Run(Fail(500, "Error fetching team view"), <<>>, first)
     ELSE Run(Ok([headline |-> teamViewData.headline,
                  content |-> teamViewData.content,
                  team |-> teamViewData.team,
                  language |-> IF translationData = {} THEN "en" ELSE "de",
                  de |-> IF translationData = {} THEN <<>>
                         ELSE <<[headline |-> german.headline,
                                 content |-> german.content]>>]),
              <<teamViewData>>, issued)

\* The edge function that serves handler h.
Handle(h, q, d, env) ==
  CASE h = "articlePreviews" -> ArticlePreviews(q, d, env)
    [] h = "articlePreviewsServiceRole" -> ArticlePreviewsServiceRole(q, d, env)
    [] h = "articlePreviewsTeam" -> ArticlePreviewsTeam(q, d, env)
    [] h = "teamArticles" -> TeamArticles(q, d, env)
    [] h = "cluster_infos" -> ClusterInfos(q, d, env)
    [] h = "clusterStories" -> ClusterStories(q, d, env)
    [] h = "cluster_articles" -> ClusterArticles(q, d, env)
    [] h = "injuries" -> Injuries(q, d, env)
    [] h = "injuriesJoin" -> InjuriesJoin(q, d, env)
    [] h = "news-ticker" -> NewsTicker(q, d, env)
    [] h = "articleDetail" -> ArticleDetail(q, d, env)
    [] h = "cluster_summary_by_id" -> ClusterSummaryById(q, d, env)
    [] h = "team_view_by_id" -> TeamViewById(q, d, env)

\* ======================================================================
\* Pagination sessions: a client pages through a fixed collection, starting
\* without a cursor and sending back each nextCursor it receives.
\* ======================================================================
NoRequest == [cursor |-> <<>>, limit |-> <<>>, team |-> <<>>]

NoResponse == [status |-> 0, error |-> "", data |-> <<>>, nextCursor |-> NoCursor]

NoEnv == [perm |-> <<>>, errs |-> [none |-> NoError], failIds |-> {}]

\* The part of the environment that the state records: the store's errors.
Faults(env) == [errs |-> env.errs, failIds |-> env.failIds]

PageHandlers ==
  {"articlePreviews", "articlePreviewsServiceRole", "articlePreviewsTeam",
   "teamArticles", "cluster_infos", "clusterStories", "cluster_articles",
   "injuries", "injuriesJoin"}

\* The fixed collections: rows with distinct ids 1..MaxId, timestamps 1..MaxTs.
Collections ==
  {{[id |-> i, ts |-> f[i]] : i \in {j \in 1..MaxId : f[j] # 0}} :
     f \in [1..MaxId -> 0..MaxTs]}

TeamNYJ == <<"N", "Y", "J">>

PageDb(h, base) ==
  CASE h = "clusterStories" ->
         [rows |-> {[id |-> r.id, ts |-> r.ts,
                     srcIds |-> IF r.id = 1 THEN {} ELSE {1, 2}] : r \in base},
          sources |-> {[id |-> 1, source |-> 7], [id |-> 2, source |-> 8]}]
    [] h = "cluster_articles" ->
         [rows |-> {[id |-> r.id, ts |-> r.ts, cluster |-> 1, headline |-> "h",
                     summary |-> "s", content |-> "c", image_url |-> Null,
                     srcIds |-> <<>>] : r \in base},
          clusters |-> {[cluster_id |-> 1, cherry_pick |-> FALSE]},
          intl |-> {}, sources |-> {}]
    [] h \in {"injuries", "injuriesJoin"} ->
         [rows |-> {[id |-> r.id, ts |-> r.ts, team |-> 1,
                     player |-> IF r.id = 1 THEN 0 ELSE 1,
                     status |-> "Out"] : r \in base},
          teams |-> {[id |-> 1, teamId |-> TeamNYJ]},
          players |-> {[id |-> 1, name |-> "P", img_url |-> Null]}]
    [] OTHER -> [rows |-> base]

PageTeam(h) ==
  CASE h \in {"teamArticles", "injuries"} -> TeamNYJ
    [] h = "injuriesJoin" -> <<"1">>
    [] OTHER -> <<>>

\* The limit parameter of a session: absent, or 1..MaxLimit.
PageLimits == {<<>>} \cup {ToStr(n) : n \in 1..MaxLimit}

InitPage ==
  /\ handler \in PageHandlers
  /\ \E base \in Collections : db = PageDb(handler, base)
  /\ \E l \in PageLimits :
       client = [cursor |-> NoCursor, limit |-> l, visited |-> <<>>,
                 pages |-> 0, empties |-> 0, done |-> FALSE]
  /\ req = NoRequest
  /\ resp = NoResponse
  /\ fetched = <<>>
  /\ log = <<>>
  /\ faults = Faults(NoEnv)
  /\ cache = {}
  /\ now = 0
  /\ pending = <<>>

ItemIds(data) == [i \in 1..Len(data) |-> data[i].id]

\* One request of the session, handled by H, and the client's bookkeeping.
PageRequest(h) ==
  /\ handler = h
  /\ ~client.done
  /\ client.pages < MaxPages
  /\ \E perm \in Perms(db.rows) :
       \E q \in {[cursor |-> client.cursor, limit |-> client.limit,
                   team |-> PageTeam(h)]} :
        \E run \in {Handle(h, q, db, [NoEnv EXCEPT !.perm = perm])} :
          /\ req' = q
          /\ faults' = Faults(NoEnv)
          /\ resp' = run.resp
          /\ fetched' = run.fetched
          /\ log' = run.log
          /\ client' = [client EXCEPT
                          !.cursor = run.resp.nextCursor,
                          !.visited = @ \o ItemIds(run.resp.data),
                          !.pages = @ + 1,
                          !.empties = @ + (IF run.resp.data = <<>> THEN 1 ELSE 0),
                          !.done = (run.resp.status # 200
                                      \/ run.resp.nextCursor = NoCursor)]
  /\ UNCHANGED <<cache, now, pending, handler, db>>

PageArticlePreviews == PageRequest("articlePreviews")
PageArticlePreviewsServiceRole ==
  PageRequest("articlePreviewsServiceRole")
PageArticlePreviewsTeam == PageRequest("articlePreviewsTeam")
PageTeamArticles == PageRequest("teamArticles")
PageClusterInfos == PageRequest("cluster_infos")
PageClusterStories == PageRequest("clusterStories")
PageClusterArticles == PageRequest("cluster_articles")
PageInjuries == PageRequest("injuries")
PageInjuriesJoin == PageRequest("injuriesJoin")

NextPage ==
  \/ PageArticlePreviews
  \/ PageArticlePreviewsServiceRole
  \/ PageArticlePreviewsTeam
  \/ PageTeamArticles
  \/ PageClusterInfos
  \/ PageClusterStories
  \/ PageClusterArticles
  \/ PageInjuries
  \/ PageInjuriesJoin

SpecPage == InitPage /\ [][NextPage]_vars

\* Sessions over four fixed collections, in which the client keeps
\* requesting while it holds a cursor: every request is answered.
InitPageLive ==
  /\ InitPage
  /\ \E base \in {{}, {[id |-> 1, ts |-> 1]},
                   {[id |-> 1, ts |-> 2], [id |-> 2, ts |-> 1]},
                   {[id |-> 1, ts |-> 1], [id |-> 2, ts |-> 1], [id |-> 3, ts |-> 2]}} :
       db = PageDb(handler, base)
  /\ client.limit \in {<<>>, <<"1">>, <<"2">>}

SpecPageLive == InitPageLive /\ [][NextPage]_vars /\ WF_vars(NextPage)

\* ======================================================================
\* Single-entity handlers with a language fallback
\* ======================================================================
\* story_line_view_by_id: the English row for "en"; else the translation row
\* as it is, and the English row only when the translation fetch errs.
StoryLineViewById(q, d, env) ==
  LET storyLineViewId == q.id
      languageCode == IF q.lang # "" THEN q.lang ELSE "en"
      view == Single({v \in d.view : ToStr(v.id) = storyLineViewId},
                     ErrOf(env, "story_line_view"))
      int == Single({t \in d.int : ToStr(t.view_id) = storyLineViewId
                                     /\ t.lang = languageCode},
                    ErrOf(env, "story_line_view_int"))
      body(row, lang) == [headline |-> row.headline,
                          introduction |-> row.introduction,
                          content |-> row.content,
                          language |-> lang]
      fetchView == Fetch("story_line_view", {storyLineViewId})
      fetchInt == Fetch("story_line_view_int", {storyLineViewId})
  IN IF storyLineViewId = <<>>
     THEN Run(Fail(400, "story_line_view_id parameter is required"), <<>>, <<>>)
     ELSE IF languageCode = "en"
     THEN IF view.error.failed
          THEN Run(Fail(404, "Story line view not found"), <<>>, <<fetchView>>)
          ELSE Run(Ok(body(view.data, "en")), <<>>, <<fetchView>>)
     ELSE IF int.error.failed
     THEN IF view.error.failed
          THEN Run(Fail(404, "Story line view not found"), <<>>, <<fetchInt, fetchView>>)
          ELSE Run(Ok(body(view.data, "en")), <<>>, <<fetchInt, fetchView>>)
     ELSE Run(Ok(body(int.data, languageCode)), <<>>, <<fetchInt>>)

\* The values of a text column: null, empty, or a text.
BaseTexts == {Null, "EN"}
LocalTexts == {Null, "", "DE"}

LangDbs ==
  {[view |-> v, int |-> t] :
     v \in {{}} \cup {{[id |-> 1, headline |-> h, introduction |-> i, content |-> c]} :
                        h \in BaseTexts, i \in BaseTexts, c \in BaseTexts},
     t \in {{}} \cup {{[view_id |-> 1, lang |-> "de", headline |-> h,
                        introduction |-> i, content |-> c]} :
                        h \in LocalTexts, i \in LocalTexts, c \in LocalTexts}}

NoClient ==
  [cursor |-> NoCursor, limit |-> <<>>, visited |-> <<>>, pages |-> 0,
   empties |-> 0, done |-> FALSE]

InitLang ==
  /\ handler = "story_line_view_by_id"
  /\ db \in LangDbs
  /\ client = NoClient
  /\ req = [id |-> <<>>, lang |-> ""]
  /\ resp = NoResponse
  /\ fetched = <<>>
  /\ log = <<>>
  /\ faults = Faults(NoEnv)
  /\ cache = {}
  /\ now = 0
  /\ pending = <<>>

TimeoutError == [failed |-> TRUE, code |-> "57014", http |-> 500, msg |-> "statement timeout"]

\* One request to story_line_view_by_id.
LangStoryLineViewById ==
  /\ handler = "story_line_view_by_id"
  /\ \E id \in {<<>>, <<"1">>, <<"2">>}, lang \in {"", "en", "de", "fr"},
        e1 \in {NoError, TimeoutError}, e2 \in {NoError, TimeoutError} :
       LET q == [id |-> id, lang |-> lang]
           env == [NoEnv EXCEPT !.errs = [story_line_view |-> e1,
                                          story_line_view_int |-> e2]]
           run == StoryLineViewById(q, db, env)
       IN /\ req' = q
          /\ faults' = Faults(env)
          /\ resp' = run.resp
          /\ fetched' = run.fetched
          /\ log' = run.log
  /\ UNCHANGED <<cache, now, pending, handler, db, client>>

SpecLang == InitLang /\ [][LangStoryLineViewById]_vars

\* ======================================================================
\* cluster_timeline
\* ======================================================================
\* .limit(100) of the manual-filtering fetch
ApproachThreeLimit == 100

\* String(value || fallback)
StringOr(value, fallback) == IF value \in {Null, ""} THEN fallback ELSE value

\* The JSON keys under which a timeline may carry its cluster id.
TimelineKeys == <<"ClusterId", "clusterId", "cluster_id">>

\* filter("timeline_data->>key", "eq", cluster_id): the rows whose
\* timeline_data is a JSON object with that key; a JSON string has no keys.
TimelinePath(rows, key, cluster_id) ==
  {t \in rows : t.form = "object" /\ t.key = key /\ t.cluster = cluster_id}

\* .limit(1) without an order: whichever matching row the store scans first.
FirstOf(S, perm) == CHOOSE t \in S : \A u \in S : Pos(perm, t) <= Pos(perm, u)

\* The lookup of the timeline: approach 1a, 1b, then the three quoted paths,
\* then the latest 100 rows filtered by hand (JSON strings parsed).  A failing
\* fetch is logged and counts as no result.
ClusterTimelineLookup(cluster_id, d, env) ==
  LET rows == IF ErrOf(env, "timelines").failed THEN {} ELSE d.timelines
      fetch == Fetch("timelines", {<<cluster_id>>})
      result1 == TimelinePath(rows, "ClusterId", cluster_id)
      hits == {i \in 1..Len(TimelineKeys) :
                 TimelinePath(rows, TimelineKeys[i], cluster_id) # {}}
      first == CHOOSE i \in hits : \A j \in hits : i <= j
      latest == Take(OrderTsDesc(rows, env.perm), ApproachThreeLimit)
      manual == SelectSeq(latest, LAMBDA t : t.cluster = cluster_id)
  IN IF result1 # {}
     THEN [found |-> TRUE, row |-> FirstOf(result1, env.perm),
           log |-> <<fetch, fetch>>]
     ELSE IF hits # {}
     THEN [found |-> TRUE,
           row |-> FirstOf(TimelinePath(rows, TimelineKeys[first], cluster_id),
                           env.perm),
           log |-> [i \in 1..(3 + first) |-> fetch]]
     ELSE IF manual # <<>>
     THEN [found |-> TRUE, row |-> Head(manual), log |-> [i \in 1..7 |-> fetch]]
     ELSE [found |-> FALSE, row |-> Null, log |-> [i \in 1..7 |-> fetch]]

\* articleIds: the article_id arrays of the entries, concatenated.
RECURSIVE TimelineArticleIds(_)
TimelineArticleIds(timeline) ==
  IF timeline = <<>> THEN <<>>
  ELSE (IF Head(timeline).isArray THEN Head(timeline).article_id ELSE <<>>)
       \o TimelineArticleIds(Tail(timeline))

\* articlesMap[String(articleId)] for the ids of one entry, in entry order;
\* ids without a fetched source article are left out.
RECURSIVE EnrichedArticles(_, _)
EnrichedArticles(ids, sourceArticlesData) ==
  IF ids = <<>> THEN <<>>
  ELSE LET hit == {a \in sourceArticlesData : ToStr(a.id) = ToStr(Head(ids))}
           article == CHOOSE a \in hit : TRUE
       IN (IF hit = {} THEN <<>>
           ELSE <<[id |-> ToStr(Head(ids)),
                   headline |-> StringOr(article.headline, "No headline"),
                   source_name |-> StringOr(article.source, "Unknown Source")]>>)
          \o EnrichedArticles(Tail(ids), sourceArticlesData)

EnrichedTimeline(row, sourceArticlesData) ==
  [timeline_name |-> row.timeline_name,
   timeline_data |->
     [i \in 1..Len(row.timeline) |->
        [date |-> StringOr(row.timeline[i].date, ""),
         headline |-> StringOr(row.timeline[i].headline, ""),
         articles |-> IF row.timeline[i].isArray
                      THEN EnrichedArticles(row.timeline[i].article_id,
                                            sourceArticlesData)
                      ELSE <<>>]]]

ClusterTimeline(q, d, env) ==
  LET cluster_id == q.cluster_id
      lookup == ClusterTimelineLookup(cluster_id, d, env)
      timelineData == lookup.row
      articleIds == TimelineArticleIds(timelineData.timeline)
      articlesError == ErrOf(env, "SourceArticles")
      fetchArticles == Fetch("SourceArticles", {ToStr(i) : i \in Range(articleIds)})
      sourceArticlesData == {a \in d.sources : a.id \in Range(articleIds)}
  IN IF cluster_id = ""
     THEN Run(Fail(400, "Missing required parameter: cluster_id"), <<>>, <<>>)
     ELSE IF ~lookup.found
     THEN Run(Fail(404, "No timeline found for this cluster"), <<>>, lookup.log)
     ELSE IF timelineData.timeline_name \in {Null, ""} \/ ~timelineData.hasTimeline
     THEN Run(Fail(500, "Invalid timeline data structure"), <<>>, lookup.log)
     ELSE IF articleIds = <<>>
     THEN Run(Ok(EnrichedTimeline(timelineData, {})), <<timelineData>>, lookup.log)
     ELSE IF articlesError.failed
     THEN Run([Fail(500, "Failed to fetch source article data")
                 EXCEPT !.data = <<articlesError.msg>>],
              <<timelineData>>, lookup.log \o <<fetchArticles>>)
     ELSE Run(Ok(EnrichedTimeline(timelineData, sourceArticlesData)),
              <<timelineData>>, lookup.log \o <<fetchArticles>>)

\* The timelines of the store: one for cluster "A" in every shape the lookup
\* distinguishes, and optionally a second, newer one for "A" and one for "B".
TimelineEntries ==
  { <<>>,
    <<[date |-> "2025", headline |-> "H1", isArray |-> TRUE, article_id |-> <<1>>]>>,
    <<[date |-> Null, headline |-> "H1", isArray |-> TRUE, article_id |-> <<2, 1>>],
      [date |-> "2025", headline |-> Null, isArray |-> FALSE, article_id |-> <<>>]>> }

TimelineDbs ==
  {[timelines |-> a \cup b, sources |-> s] :
     a \in {{}} \cup
           {{[id |-> 1, ts |-> 1, timeline_name |-> n, form |-> f, key |-> k,
              cluster |-> "A", hasTimeline |-> TRUE, timeline |-> e]} :
              n \in {"", "T"}, f \in {"object", "string"},
              k \in Range(TimelineKeys), e \in TimelineEntries},
     b \in {{},
            {[id |-> 2, ts |-> 2, timeline_name |-> "U", form |-> "object",
              key |-> "ClusterId", cluster |-> "A", hasTimeline |-> FALSE,
              timeline |-> <<>>]},
            {[id |-> 3, ts |-> 1, timeline_name |-> "B", form |-> "string",
              key |-> "cluster_id", cluster |-> "B", hasTimeline |-> TRUE,
              timeline |-> <<[date |-> "2024", headline |-> "HB",
                              isArray |-> TRUE, article_id |-> <<1>>]>>]}},
     s \in {{}, {[id |-> 1, headline |-> "S1", source |-> "ESPN"]},
            {[id |-> 1, headline |-> Null, source |-> Null],
             [id |-> 2, headline |-> "S2", source |-> "NFL"]}}}

InitTimeline ==
  /\ handler = "cluster_timeline"
  /\ db \in TimelineDbs
  /\ client = NoClient
  /\ req = [cluster_id |-> ""]
  /\ resp = NoResponse
  /\ fetched = <<>>
  /\ log = <<>>
  /\ faults = Faults(NoEnv)
  /\ cache = {}
  /\ now = 0
  /\ pending = <<>>

\* One request to cluster_timeline.
TimelineRequest ==
  /\ handler = "cluster_timeline"
  /\ \E cluster_id \in {"", "A", "B", "C"}, perm \in Perms(db.timelines),
        e1 \in {NoError, TimeoutError}, e2 \in {NoError, TimeoutError} :
       LET q == [cluster_id |-> cluster_id]
           env == [NoEnv EXCEPT !.perm = perm,
                                !.errs = [timelines |-> e1, SourceArticles |-> e2]]
           run == ClusterTimeline(q, db, env)
       IN /\ req' = q
          /\ faults' = Faults(env)
          /\ resp' = run.resp
          /\ fetched' = run.fetched
          /\ log' = run.log
  /\ UNCHANGED <<cache, now, pending, handler, db, client>>

SpecTimeline == InitTimeline /\ [][TimelineRequest]_vars

\* ======================================================================
\* cluster_articles with its secondary lookups
\* ======================================================================
ArticleRows ==
  << [id |-> 1, ts |-> 1, cluster |-> 1, headline |-> "h1", summary |-> Null,
     content |-> "c1", image_url |-> Null, srcIds |-> <<1, 2>>],
     [id |-> 2, ts |-> 2, cluster |-> 1, headline |-> "h2", summary |-> "s2",
     content |-> "c2", image_url |-> "img", srcIds |-> <<2>>],
     [id |-> 3, ts |-> 2, cluster |-> 2, headline |-> "h3", summary |-> "s3",
     content |-> "c3", image_url |-> Null, srcIds |-> <<>>] >>

ArticleDbs ==
  {[rows |-> r, clusters |-> c, intl |-> t, sources |-> s] :
     r \in {{}, {ArticleRows[1]}, {ArticleRows[1], ArticleRows[2]},
            {ArticleRows[2], ArticleRows[3]}},
     c \in {{}, {[cluster_id |-> 1, cherry_pick |-> FALSE],
                 [cluster_id |-> 2, cherry_pick |-> TRUE]}},
     t \in {{}, {[article |-> 1, lang |-> "de", headline |-> "hd",
                   summary |-> Null, content |-> "cd"],
                  [article |-> 2, lang |-> "es", headline |-> "he",
                   summary |-> "se", content |-> "ce"]}},
     s \in {{}, {[id |-> 1, ts |-> 1, name |-> "ESPN"],
                 [id |-> 2, ts |-> 2, name |-> "NFL"]},
            {[id |-> 2, ts |-> 1, name |-> Null]}}}

InitArticles ==
  /\ handler = "cluster_articles"
  /\ db \in ArticleDbs
  /\ client = NoClient
  /\ req = NoRequest
  /\ resp = NoResponse
  /\ fetched = <<>>
  /\ log = <<>>
  /\ faults = Faults(NoEnv)
  /\ cache = {}
  /\ now = 0
  /\ pending = <<>>

\* One request to cluster_articles; each of its four fetches may fail.
ArticlesRequest ==
  /\ handler = "cluster_articles"
  /\ \E limit \in {<<>>, <<"1">>}, cursor \in {<<>>, <<"2">>},
        perm \in Perms(db.rows), e \in [1..4 -> {NoError, TimeoutError}] :
       LET q == [cursor |-> cursor, limit |-> limit, team |-> <<>>]
           env == [NoEnv EXCEPT !.perm = perm,
                                !.errs = [clusters |-> e[1],
                                          cluster_articles |-> e[2],
                                          cluster_article_int |-> e[3],
                                          SourceArticles |-> e[4]]]
           run == ClusterArticles(q, db, env)
       IN /\ req' = q
          /\ faults' = Faults(env)
          /\ resp' = run.resp
          /\ fetched' = run.fetched
          /\ log' = run.log
  /\ UNCHANGED <<cache, now, pending, handler, db, client>>

SpecArticles == InitArticles /\ [][ArticlesRequest]_vars

\* ------------------------------------------------ story_lines, story_detail
StoryLinesLimit == 25

\* .range(offset, offset + limit - 1) with count 'exact': an offset
\* beyond the total is answered by the store with its range error.
RangeError ==
  [failed |-> TRUE, code |-> "PGRST103", http |-> 416,
   msg |-> "Requested range not satisfiable"]

\* story_lines: the headlines of the newest articles of the cherry-picked
\* clusters, one page of 25, translated when a translation has a headline.
StoryLines(q, d, env) ==
  LET languageCode == q.lang
      parsed == ParseInt(q.page)
      page == IF q.page # <<>>
              THEN [nan |-> parsed.nan,
                    val |-> IF parsed.nan \/ parsed.val < 1 THEN 1 ELSE parsed.val]
              ELSE [nan |-> FALSE, val |-> 1]
      limit == StoryLinesLimit
      offset == (page.val - 1) * limit
      clusterError == ErrOf(env, "clusters")
      clusterIds == {c.cluster_id : c \in {x \in d.clusters : x.cherry_pick}}
      matching == {r \in d.rows : r.cluster \in clusterIds}
      count == Cardinality(matching)
      clusterArticlesError ==
        IF ErrOf(env, "cluster_articles").failed THEN ErrOf(env, "cluster_articles")
        ELSE IF page.nan THEN InvalidInput
        ELSE IF offset > count THEN RangeError
        ELSE NoError
      ordered == OrderTsDesc(matching, env.perm)
      clusterArticlesData == SubSeq(ordered, offset + 1, Min(offset + limit, count))
      articleIds == {clusterArticlesData[i].id : i \in 1..Len(clusterArticlesData)}
      intlError == ErrOf(env, "cluster_article_int")
      translationMap == {t \in d.intl : t.article \in articleIds /\ t.lang = languageCode}
      english(article) == [headline |-> article.headline,
                           image_url |-> article.image_url,
                           cluster_id |-> article.cluster]
      translated(article) ==
        LET hit == {t \in translationMap : t.article = article.id}
        IN IF hit # {} /\ (CHOOSE t \in hit : TRUE).headline \notin {Null, ""}
           THEN [english(article) EXCEPT !.headline = (CHOOSE t \in hit : TRUE).headline]
           ELSE english(article)
      results == [i \in 1..Len(clusterArticlesData) |->
                    IF languageCode = "en" \/ intlError.failed
                    THEN english(clusterArticlesData[i])
                    ELSE translated(clusterArticlesData[i])]
      totalPages == (count + limit - 1) \div limit
      pagination(total, pages, hasNext) ==
        [page |-> page.val, limit |-> limit, total |-> total, totalPages |-> pages,
         hasNext |-> hasNext, hasPrev |-> page.val > 1]
      debug == <<Fetch("cluster_article_int", {})>>
      first == debug \o <<Fetch("clusters", {})>>
      second == first \o <<Fetch("cluster_articles", clusterIds)>>
      third == IF languageCode = "en" THEN second
               ELSE second \o <<Fetch("cluster_article_int", articleIds)>>
  IN IF languageCode = ""
     THEN Run(Fail(400, "language_code parameter is required"), <<>>, <<>>)
     ELSE IF clusterError.failed
     THEN Run(Fail(500, "Failed to fetch cherry-picked clusters: " \o clusterError.msg),
              <<>>, first)
     ELSE IF clusterIds = {}
     THEN Run(Ok([items |-> <<>>, pagination |-> pagination(0, 0, FALSE)]), <<>>, first)
     ELSE IF clusterArticlesError.failed
     THEN Run(Fail(500, "Failed to fetch cluster articles: " \o clusterArticlesError.msg),
              <<>>, second)
     ELSE IF clusterArticlesData = <<>>
     THEN Run(Ok([items |-> <<>>, pagination |-> pagination(count, totalPages, FALSE)]),
              <<>>, second)
     ELSE Run(Ok([items |-> results,
                  pagination |-> pagination(count, totalPages, page.val < totalPages)]),
              clusterArticlesData, third)

\* A faulty variant of OrElse: the localized value is used whatever it is.
OrElseLocalized(a, b) == a

\* translation.headline || headline
OrElse(a, b) == IF a \in {Null, ""} THEN b ELSE a

\* story_detail: the newest article of a cluster with its views; for a
\* language other than "en" every text falls back to English on its own.
StoryDetail(q, d, env) ==
  LET clusterId == q.id
      languageCode == q.lang
      ordered == OrderTsDesc({r \in d.rows : ToStr(r.cluster) = clusterId}, env.perm)
      newest == IF ordered = <<>> THEN {} ELSE {ordered[1]}
      article == Single(newest, ErrOf(env, "cluster_articles"))
      translation ==
        Single({t \in d.intl : t.article = article.data.id /\ t.lang = languageCode},
               ErrOf(env, "cluster_article_int"))
      text(f) == IF languageCode # "en" /\ ~translation.error.failed
                 THEN OrElse(translation.data[f], article.data[f])
                 ELSE article.data[f]
      viewsError == ErrOf(env, "story_line_view")
      views == IF viewsError.failed THEN <<>>
               ELSE OrderIdAsc({v \in d.views : ToStr(v.cluster) = clusterId})
      viewTranslation(view) ==
        Single({t \in d.views_int : t.view_id = view.id /\ t.lang = languageCode},
               ErrOf(env, "story_line_view_int"))
      viewContent(view) ==
        IF languageCode # "en" /\ ~viewTranslation(view).error.failed
        THEN OrElse(viewTranslation(view).data.view, view.view)
        ELSE view.view
      storyViews == [i \in 1..Len(views) |->
                       [view |-> viewContent(views[i]), id |-> views[i].id]]
      first == <<Fetch("cluster_articles", {clusterId})>>
      second == IF languageCode # "en"
                THEN first \o <<Fetch("cluster_article_int", {article.data.id})>>
                ELSE first
      third == second \o <<Fetch("story_line_view", {clusterId})>>
      lookups == IF languageCode # "en"
                 THEN [i \in 1..Len(views) |-> Fetch("story_line_view_int", {views[i].id})]
                 ELSE <<>>
  IN IF clusterId = <<>>
     THEN Run(Fail(400, "cluster_id parameter is required"), <<>>, <<>>)
     ELSE IF languageCode = ""
     THEN Run(Fail(400, "language_code parameter is required"), <<>>, <<>>)
     ELSE IF article.error.failed
     THEN Run(Fail(404, "Article not found"), <<>>, first)
     ELSE Run(Ok([headline |-> text("headline"), summary |-> text("summary"),
                  content |-> text("content"), image_url |-> article.data.image_url,
                  views |-> storyViews]),
              <<article.data>>, third \o lookups)

\* The stores of the three handlers that serve a language: articles of
\* cluster 1 (cherry-picked), their German translations, and one view.
StoryDbs ==
  {[rows |-> r, clusters |-> c, intl |-> t, views |-> v, views_int |-> w,
    view |-> {[id |-> 1, headline |-> "EN", introduction |-> "EN", content |-> "EN"]},
    int |-> {[view_id |-> 1, lang |-> "de", headline |-> "DE",
              introduction |-> Null, content |-> ""]}] :
     r \in {{}, {ArticleRows[1]}, {ArticleRows[1], ArticleRows[2]}},
     c \in {{}, {[cluster_id |-> 1, cherry_pick |-> TRUE],
                 [cluster_id |-> 2, cherry_pick |-> FALSE]}},
     t \in {{}, {[article |-> 1, lang |-> "de", headline |-> "",
                   summary |-> Null, content |-> "cd"]},
            {[article |-> 1, lang |-> "de", headline |-> "hd",
              summary |-> "sd", content |-> "cd"]}},
     v \in {{}, {[id |-> 1, cluster |-> 1, view |-> "v"]}},
     w \in {{}, {[view_id |-> 1, lang |-> "de", view |-> "vd"]}}}

InitStory ==
  /\ handler \in {"story_lines", "story_detail", "story_line_view_by_id"}
  /\ db \in StoryDbs
  /\ client = NoClient
  /\ req = [id |-> <<>>, lang |-> "", page |-> <<>>]
  /\ resp = NoResponse
  /\ fetched = <<>>
  /\ log = <<>>
  /\ faults = Faults(NoEnv)
  /\ cache = {}
  /\ now = 0
  /\ pending = <<>>

\* One request to handler h in some language; the fetches against the base
\* tables and against the translation tables may fail.
StoryRequest(h) ==
  /\ handler = h
  /\ ~client.done
  /\ \E id \in {<<>>, <<"1">>, <<"2">>}, lang \in {"", "en", "de"},
        page \in {<<>>, <<"1">>, <<"2">>, <<"0">>, <<"-", "1">>, <<"x">>},
        perm \in Perms(db.rows), e \in [1..3 -> {NoError, TimeoutError}] :
       LET q == [id |-> id, lang |-> lang, page |-> page]
           env == [NoEnv EXCEPT !.perm = perm,
                                !.errs = [clusters |-> e[1],
                                          cluster_articles |-> e[1],
                                          story_line_view |-> e[2],
                                          cluster_article_int |-> e[3],
                                          story_line_view_int |-> e[3]]]
           run == CASE h = "story_lines" -> StoryLines(q, db, env)
                    [] h = "story_detail" -> StoryDetail(q, db, env)
                    [] h = "story_line_view_by_id" -> StoryLineViewById(q, db, env)
       IN /\ req' = q
          /\ faults' = Faults(env)
          /\ resp' = run.resp
          /\ fetched' = run.fetched
          /\ log' = run.log
          /\ client' = [client EXCEPT !.pages = 1, !.done = TRUE]
  /\ UNCHANGED <<cache, now, pending, handler, db>>

NextStory ==
  \/ StoryRequest("story_lines")
  \/ StoryRequest("story_detail")
  \/ StoryRequest("story_line_view_by_id")

SpecStory == InitStory /\ [][NextStory]_vars

\* ------------------------------------------------------ sendPushNotification
\* The webhook: the device tokens subscribed to the record's team are fetched
\* and one FCM message is sent per token.  The bodies of the three checks
\* (payload type and table, release and team, no tokens) are empty in the
\* source, so nothing returns early there; a payload without a record throws
\* at newRecord.release.  sendFcmMessage catches every failure, so every
\* send result is fulfilled and is counted as a success.
SendPushNotification(q, d, env) ==
  LET tokenError == IF ErrOf(env, "device_tokens").failed THEN ErrOf(env, "device_tokens")
                    ELSE IF q.team = 0 THEN InvalidInput
                    ELSE NoError
      tokensData == SelectSeq(env.perm, LAMBDA t : t.team = q.team)
      targetTokens == SelectSeq(tokensData, LAMBDA t : t.token # "")
      first == <<Fetch("device_tokens", {q.team})>>
      sends == [i \in 1..Len(targetTokens) |-> Fetch("FCM", {targetTokens[i].token})]
      results == [i \in 1..Len(targetTokens) |->
                    [status |-> "fulfilled",
                     success |-> targetTokens[i].id \notin env.failIds]]
      successfulSends == Cardinality({i \in 1..Len(results) : results[i].status = "fulfilled"})
      failedSends == Cardinality({i \in 1..Len(results) : results[i].status = "rejected"})
  IN IF q.method = "OPTIONS" THEN Run(Ok("ok"), <<>>, <<>>)
     ELSE IF q.method # "POST" THEN Run(Fail(405, "Method Not Allowed"), <<>>, <<>>)
     ELSE IF ~q.hasRecord
     THEN Run(Fail(500, "Cannot read properties of undefined"), <<>>, <<>>)
     ELSE IF tokenError.failed
     THEN Run(Fail(500, "Failed to fetch device tokens: " \o tokenError.msg), <<>>, first)
     ELSE IF ErrOf(env, "oauth").failed
     THEN Run(Fail(500, "Failed to generate/fetch access token for FCM: "
                          \o ErrOf(env, "oauth").msg),
              tokensData, first)
     ELSE Run(Ok([attempted |-> Len(targetTokens), success |-> successfulSends,
                  failed |-> failedSends]),
              tokensData, first \o sends)

\* device_tokens: up to three subscriptions, one of them with an empty token.
PushDbs ==
  {[rows |-> r] :
     r \in {{}, {[id |-> 1, token |-> "t1", team |-> 1]},
            {[id |-> 1, token |-> "t1", team |-> 1], [id |-> 2, token |-> "t2", team |-> 1]},
            {[id |-> 1, token |-> "t1", team |-> 1], [id |-> 2, token |-> "t2", team |-> 2],
             [id |-> 3, token |-> "", team |-> 1]}}}

InitPush ==
  /\ handler = "sendPushNotification"
  /\ db \in PushDbs
  /\ client = NoClient
  /\ req = [method |-> "", type |-> "", table |-> "", hasRecord |-> FALSE,
            release |-> "", team |-> 0]
  /\ resp = NoResponse
  /\ fetched = <<>>
  /\ log = <<>>
  /\ faults = Faults(NoEnv)
  /\ cache = {}
  /\ now = 0
  /\ pending = <<>>

\* One webhook call: any payload; the token fetch, the OAuth exchange and
\* the FCM sends to some of the tokens may fail.
PushRequest ==
  /\ handler = "sendPushNotification"
  /\ ~client.done
  /\ \E method \in {"POST", "GET", "OPTIONS"}, type \in {"INSERT", "UPDATE"},
        table \in {"NewsArticles", "Teams"}, hasRecord \in BOOLEAN,
        release \in {"PUBLISHED", "DRAFT"}, team \in 0..2,
        e \in [1..2 -> {NoError, TimeoutError}],
        failIds \in SUBSET {r.id : r \in db.rows}, perm \in Perms(db.rows) :
       LET q == [method |-> method, type |-> type, table |-> table,
                 hasRecord |-> hasRecord,
                 release |-> IF hasRecord THEN release ELSE "",
                 team |-> IF hasRecord THEN team ELSE 0]
           env == [NoEnv EXCEPT !.perm = perm, !.failIds = failIds,
                                !.errs = [device_tokens |-> e[1], oauth |-> e[2]]]
           run == SendPushNotification(q, db, env)
       IN /\ req' = q
          /\ faults' = Faults(env)
          /\ resp' = run.resp
          /\ fetched' = run.fetched
          /\ log' = run.log
          /\ client' = [client EXCEPT !.pages = 1, !.done = TRUE]
  /\ UNCHANGED <<cache, now, pending, handler, db>>

SpecPush == InitPush /\ [][PushRequest]_vars

\* ======================================================================
\* timeline_by_cluster_id
\* ======================================================================
\* fetchTimelineRecord: the first row of the table for the cluster (and the
\* language, for timelines_int), or the error of the fetch.
FetchTimelineRecord(rows, tableName, cluster_id, language_code, err) ==
  LET data == {r \in rows : /\ r.cluster = cluster_id
                            /\ (tableName = "timelines_int" /\ language_code # "")
                                 => r.lang = language_code}
  IN IF err.failed THEN [record |-> Null, found |-> FALSE, error |-> err]
     ELSE IF data # {}
     THEN [record |-> CHOOSE r \in data : TRUE, found |-> TRUE, error |-> NoError]
     ELSE [record |-> Null, found |-> FALSE, error |-> NoError]

\* cleanedTimeline: the flat entries and the articles of the date-grouped
\* entries that have a headline or a summary.
RECURSIVE CleanedTimeline(_)
CleanedTimeline(timeline) ==
  IF timeline = <<>> THEN <<>>
  ELSE LET entry == Head(timeline)
           clean(a) == [headline |-> OrElse(a.headline, ""),
                        instruction |-> OrElse(a.summary, ""),
                        content |-> OrElse(a.summary, "")]
           nonEmpty(a) == a.headline \notin {Null, ""} \/ a.summary \notin {Null, ""}
           articles == IF "articles" \in DOMAIN entry THEN entry.articles ELSE <<entry>>
           kept == SelectSeq(articles, nonEmpty)
       IN [i \in 1..Len(kept) |-> clean(kept[i])] \o CleanedTimeline(Tail(timeline))

TimelineByClusterId(q, d, env) ==
  LET cluster_id == q.id
      language_code == IF q.lang = "" THEN "en" ELSE q.lang
      intl == FetchTimelineRecord(d.timelines_int, "timelines_int", cluster_id,
                                  language_code, ErrOf(env, "timelines_int"))
      tryIntl == language_code # "en"
      base == FetchTimelineRecord(d.timelines, "timelines", cluster_id, "",
                                  ErrOf(env, "timelines"))
      useIntl == tryIntl /\ intl.found
      timelineToProcess == IF useIntl THEN intl.record ELSE base.record
      found == useIntl \/ base.found
      processingError ==
        IF base.error.failed THEN base.error
        ELSE IF tryIntl THEN intl.error
        ELSE NoError
      tableSource == IF useIntl THEN "timelines_int" ELSE "timelines"
      first == IF tryIntl THEN <<Fetch("timelines_int", {cluster_id})>> ELSE <<>>
      issued == IF useIntl THEN first ELSE first \o <<Fetch("timelines", {cluster_id})>>
      cleanedTimeline == CleanedTimeline(timelineToProcess.timeline)
  IN IF cluster_id = ""
     THEN Run(Fail(400, "Missing required parameter: cluster_id"), <<>>, <<>>)
     ELSE IF ~found /\ processingError.failed
     THEN Run(Fail(500, "Failed to fetch timeline data: " \o processingError.msg),
              <<>>, issued)
     ELSE IF ~found
     THEN Run(Fail(404, "Timeline not found"), <<>>, issued)
     ELSE IF ~timelineToProcess.parses
     THEN Run(Fail(500, "Invalid timeline data format"), <<timelineToProcess>>, issued)
     ELSE Run(Ok([cluster_id |-> cluster_id,
                  language_code |-> language_code,
                  table_source |-> tableSource,
                  timeline_entries |-> cleanedTimeline,
                  total_entries |-> Len(cleanedTimeline)]),
              <<timelineToProcess>>, issued)

\* The timelines and timelines_int rows of cluster "A"; parses is false for
\* a timeline_data string that JSON.parse rejects.
TimelineByIdDbs ==
  {[timelines |-> t, timelines_int |-> i] :
     t \in {{},
            {[cluster |-> "A", lang |-> "en", parses |-> TRUE,
              timeline |-> <<[headline |-> "H", summary |-> "S"],
                             [headline |-> "", summary |-> Null],
                             [date |-> "2025",
                              articles |-> <<[headline |-> Null, summary |-> "S2"]>>]>>]},
            {[cluster |-> "A", lang |-> "en", parses |-> FALSE, timeline |-> <<>>]}},
     i \in {{},
            {[cluster |-> "A", lang |-> "de", parses |-> TRUE,
              timeline |-> <<[headline |-> "HD", summary |-> "SD"]>>]},
            {[cluster |-> "A", lang |-> "es", parses |-> TRUE, timeline |-> <<>>]}}}

InitTimelineById ==
  /\ handler = "timeline_by_cluster_id"
  /\ db \in TimelineByIdDbs
  /\ client = NoClient
  /\ req = [id |-> "", lang |-> ""]
  /\ resp = NoResponse
  /\ fetched = <<>>
  /\ log = <<>>
  /\ faults = Faults(NoEnv)
  /\ cache = {}
  /\ now = 0
  /\ pending = <<>>

\* One request to timeline_by_cluster_id; each of its two fetches may fail.
TimelineByIdRequest ==
  /\ handler = "timeline_by_cluster_id"
  /\ ~client.done
  /\ \E id \in {"", "A", "B"}, lang \in {"", "en", "de"},
        e \in [1..2 -> {NoError, TimeoutError}] :
       LET q == [id |-> id, lang |-> lang]
           env == [NoEnv EXCEPT !.errs = [timelines_int |-> e[1], timelines |-> e[2]]]
           run == TimelineByClusterId(q, db, env)
       IN /\ req' = q
          /\ faults' = Faults(env)
          /\ resp' = run.resp
          /\ fetched' = run.fetched
          /\ log' = run.log
          /\ client' = [client EXCEPT !.pages = 1, !.done = TRUE]
  /\ UNCHANGED <<cache, now, pending, handler, db>>

SpecTimelineById == InitTimelineById /\ [][TimelineByIdRequest]_vars

\* ======================================================================
\* standings, and the handlers with a required filter parameter
\* ======================================================================
StandingsDefaultSeason == 2024

\* String.prototype.toUpperCase / toLowerCase on the parameter values used.
ToUpperCase(str) ==
  CASE str = "afc" -> "AFC"
    [] str = "nfc" -> "NFC"
    [] OTHER -> str

ToLowerCase(str) ==
  CASE str = "West" -> "west"
    [] str = "WEST" -> "west"
    [] str = "Conference" -> "conference"
    [] str = "DIVISION" -> "division"
    [] OTHER -> str

\* rawStandings.map: each standings row with the details of its team.
ProcessedStanding(st, teamsMap) ==
  LET hit == {t \in teamsMap : t.id = st.team_id}
      teamDetail == CHOOSE t \in hit : TRUE
  IN [team_id |-> st.team_id,
      season |-> st.season,
      win_percentage |-> st.win_percentage,
      points_for |-> st.points_for,
      team_name |-> IF hit # {} THEN OrElse(teamDetail.fullName, "Unknown Team")
                    ELSE "Unknown Team",
      team_abbreviation |-> IF hit # {} THEN OrElse(teamDetail.teamId, "N/A") ELSE "N/A",
      conference |-> IF hit # {} THEN OrElse(teamDetail.conference, "N/A") ELSE "N/A",
      division |-> IF hit # {} THEN OrElse(teamDetail.division, "N/A") ELSE "N/A"]

\* standings: the Teams and standings fetches come first, the filter by
\* type and the check of its parameters after them; a failed fetch is
\* thrown to the catch block, which answers 500 with the error's message.
Standings(q, d, env) ==
  LET type == IF ToLowerCase(q.type) = "" THEN "overall" ELSE ToLowerCase(q.type)
      conferenceParam == ToUpperCase(q.conference)
      divisionParam == q.division
      season == IF q.season # <<>> THEN ParseInt(q.season)
                ELSE [nan |-> FALSE, val |-> StandingsDefaultSeason]
      teamsError == ErrOf(env, "Teams")
      teamsData == d.teams
      standingsError == ErrOf(env, "standings")
      matching == {st \in d.standings : st.season = season.val}
      rawStandings ==
        SortDesc(matching, [st \in matching |-> <<st.win_percentage, st.points_for>>])
      processedStandings ==
        [i \in 1..Len(rawStandings) |-> ProcessedStanding(rawStandings[i], teamsData)]
      byConference(st) == st.conference = conferenceParam
      byDivision(st) == /\ st.conference = conferenceParam
                        /\ ToLowerCase(st.division) = ToLowerCase(divisionParam)
      first == <<Fetch("Teams", {})>>
      second == first \o <<Fetch("standings", {season.val})>>
  IN IF season.nan
     THEN Run(Fail(400, "Invalid season parameter"), <<>>, <<>>)
     ELSE IF teamsError.failed
     THEN Run(Fail(500, teamsError.msg), <<>>, first)
     ELSE IF teamsData = {}
     THEN Run(Fail(404, "No teams data found in \"Teams\" table."), <<>>, first)
     ELSE IF standingsError.failed
     THEN Run(Fail(500, standingsError.msg), <<>>, second)
     ELSE IF rawStandings = <<>>
     THEN Run(Fail(404, "No standings data found for season"), <<>>, second)
     ELSE IF type = "conference" /\ conferenceParam # ""
     THEN Run(Ok(SelectSeq(processedStandings, byConference)), rawStandings, second)
     ELSE IF type = "division" /\ conferenceParam # "" /\ divisionParam # ""
     THEN Run(Ok(SelectSeq(processedStandings, byDivision)), rawStandings, second)
     ELSE IF type \in {"conference", "division"}
     THEN Run(Fail(400, "Missing parameters for standings type"), rawStandings, second)
     ELSE Run(Ok(processedStandings), rawStandings, second)

\* Teams and standings rows of the season 2024; the standings rows differ
\* in win_percentage.
StandingsDbs ==
  {[teams |-> t, standings |-> st] :
     t \in {{}, {[id |-> 1, fullName |-> "Chiefs", teamId |-> "KC",
                  conference |-> "AFC", division |-> "West"],
                 [id |-> 2, fullName |-> "Eagles", teamId |-> "PHI",
                  conference |-> "NFC", division |-> "East"]}},
     st \in {{}, {[team_id |-> 1, season |-> StandingsDefaultSeason,
                   win_percentage |-> 2, points_for |-> 1],
                  [team_id |-> 2, season |-> StandingsDefaultSeason,
                   win_percentage |-> 1, points_for |-> 2],
                  [team_id |-> 3, season |-> StandingsDefaultSeason,
                   win_percentage |-> 0, points_for |-> 0]}}}

InitParam ==
  /\ handler \in {"teamArticles", "story_lines", "standings"}
  /\ db \in CASE handler = "teamArticles" ->
                 {PageDb(handler, base) :
                    base \in {{}, {[id |-> 1, ts |-> 1], [id |-> 2, ts |-> 2]}}}
             [] handler = "story_lines" -> StoryDbs
             [] OTHER -> StandingsDbs
  /\ client = NoClient
  /\ req = NoRequest
  /\ resp = NoResponse
  /\ fetched = <<>>
  /\ log = <<>>
  /\ faults = Faults(NoEnv)
  /\ cache = {}
  /\ now = 0
  /\ pending = <<>>

\* The response to the one request q of the client, as handler h gives it.
ParamResponse(q, env, run) ==
  /\ ~client.done
  /\ req' = q
  /\ faults' = Faults(env)
  /\ resp' = run.resp
  /\ fetched' = run.fetched
  /\ log' = run.log
  /\ client' = [client EXCEPT !.pages = 1, !.done = TRUE]
  /\ UNCHANGED <<cache, now, pending, handler, db>>

ParamTeamArticles ==
  /\ handler = "teamArticles"
  /\ \E team \in {<<>>, TeamNYJ}, limit \in {<<>>, <<"1">>, <<"x">>},
        cursor \in {<<>>, <<"2">>}, e \in {NoError, TimeoutError} :
       \E q \in {[cursor |-> cursor, limit |-> limit, team |-> team]},
          env \in {[NoEnv EXCEPT !.errs = [TeamNewsArticles |-> e]]} :
         ParamResponse(q, env, TeamArticles(q, db, env))

ParamStoryLines ==
  /\ handler = "story_lines"
  /\ \E lang \in {"", "en", "de"}, page \in {<<>>, <<"2">>},
        perm \in Perms(db.rows), e \in [1..2 -> {NoError, TimeoutError}] :
       \E q \in {[id |-> <<>>, lang |-> lang, page |-> page]},
          env \in {[NoEnv EXCEPT !.perm = perm,
                                 !.errs = [clusters |-> e[1], cluster_articles |-> e[1],
                                           cluster_article_int |-> e[2]]]} :
         ParamResponse(q, env, StoryLines(q, db, env))

ParamStandings ==
  /\ handler = "standings"
  /\ \E type \in {"", "overall", "Conference", "division", "DIVISION", "playoffs"},
        season \in {<<>>, <<"x">>, <<"1">>}, conference \in {"", "afc", "NFC"},
        division \in {"", "West", "east"}, e \in [1..2 -> {NoError, TimeoutError}] :
       \E q \in {[type |-> type, season |-> season, conference |-> conference,
                   division |-> division]},
          env \in {[NoEnv EXCEPT !.errs = [Teams |-> e[1], standings |-> e[2]]]} :
         ParamResponse(q, env, Standings(q, db, env))

NextParam ==
  \/ ParamTeamArticles
  \/ ParamStoryLines
  \/ ParamStandings

SpecParam == InitParam /\ [][NextParam]_vars

\* ======================================================================
\* roster and injuries: the per-row lookups issued with Promise.all
\* ======================================================================
\* One item of formattedData: the player with the abbreviation of the team
\* (.single() lookup; null when it fails or matches no row), the height in
\* feet and inches and the weight with its unit.
FormatPlayer(player, d, env) ==
  LET teamData == Single({t \in d.teams : t.id = player.teamId},
                         IF player.id \in env.failIds THEN TimeoutError ELSE NoError)
      parsed == ParseInt(player.height)
      heightInches == IF player.height = <<>> THEN 0 ELSE parsed.val
      feet == heightInches \div 12
      inches == heightInches % 12
      formattedHeight ==
        IF player.height # <<>> /\ parsed.nan
        THEN <<"N", "a", "N", "'", "N", "a", "N", "\"">>
        ELSE ToStr(feet) \o <<"'">> \o ToStr(inches) \o <<"\"">>
      formattedWeight == IF player.weight = 0 THEN <<>>
                         ELSE ToStr(player.weight) \o <<" ", "l", "b", "s">>
  IN [teamId |-> IF teamData.error.failed THEN Null
                 ELSE OrElse(teamData.data.teamId, Null),
      name |-> player.name,
      height |-> formattedHeight,
      weight |-> formattedWeight]

\* roster: the highest version among the active rows (those that pass
\* .not("status", "in", '("CUT","RET")')), the active rows of that version,
\* and one Teams lookup per row.
Roster(q, d, env) ==
  LET ActiveRoster(r) == r.status \notin {"CUT", "RET"}
      versionError == ErrOf(env, "RostersVersion")
      active == {r \in d.rosters : ActiveRoster(r)}
      highestVersion == CHOOSE v \in {r.version : r \in active} :
                          \A r \in active : r.version <= v
      rostersError == ErrOf(env, "Rosters")
      rostersData == SelectSeq(env.perm, LAMBDA r : ActiveRoster(r) /\ r.version = highestVersion)
      formattedData == [i \in 1..Len(rostersData) |-> FormatPlayer(rostersData[i], d, env)]
      first == <<Fetch("Rosters", {})>>
      second == first \o <<Fetch("Rosters", {highestVersion})>>
      lookups == [i \in 1..Len(rostersData) |-> Fetch("Teams", {rostersData[i].teamId})]
  IN IF versionError.failed
     THEN Run(Fail(500, "Error fetching version data"), <<>>, first)
     ELSE IF active = {}
     THEN Run(Ok(<<>>), <<>>, first)
     ELSE IF rostersError.failed
     THEN Run(Fail(500, "Error fetching roster data"), <<>>, second)
     ELSE Run(Ok(formattedData), rostersData, second \o lookups)

\* A faulty variant of PromiseAll: settled as soon as one promise is.
PromiseAny(promises) ==
  \E i \in 1..Len(promises) : promises[i].state = "fulfilled"

\* await Promise.all(promises): resumes once every promise is fulfilled
\* (the mappers catch nothing and throw nothing, so none is rejected).
PromiseAll(promises) ==
  \A i \in 1..Len(promises) : promises[i].state = "fulfilled"

\* The stores of the two handlers: Rosters rows of two versions with their
\* teams, and the injuries of team NYJ with their players.
JoinDbs(h) ==
  IF h = "roster"
  THEN {[rosters |-> r, teams |-> t] :
          r \in {{},
                 {[id |-> 1, name |-> "A", version |-> 2, status |-> "ACT", teamId |-> 1,
                   height |-> <<"7", "6">>, weight |-> 250],
                  [id |-> 2, name |-> "B", version |-> 2, status |-> "INA", teamId |-> 2,
                   height |-> <<>>, weight |-> 0],
                  [id |-> 3, name |-> "C", version |-> 1, status |-> "ACT", teamId |-> 1,
                   height |-> <<"7", "0">>, weight |-> 200],
                  [id |-> 4, name |-> "D", version |-> 3, status |-> "CUT", teamId |-> 2,
                   height |-> <<"x">>, weight |-> 0]}},
          t \in {{[id |-> 1, teamId |-> "KC"], [id |-> 2, teamId |-> "PHI"]},
                 {[id |-> 1, teamId |-> "KC"]}}}
  ELSE {[rows |-> r,
         teams |-> {[id |-> 1, teamId |-> TeamNYJ]},
         players |-> {[id |-> 1, name |-> "P1", img_url |-> Null],
                      [id |-> 2, name |-> "P2", img_url |-> "img"]}] :
          r \in {{},
                 {[id |-> 1, ts |-> 1, team |-> 1, player |-> 1, status |-> "Out"],
                  [id |-> 2, ts |-> 1, team |-> 1, player |-> 2, status |-> "IR"]},
                 {[id |-> 1, ts |-> 1, team |-> 1, player |-> 1, status |-> "Out"],
                  [id |-> 2, ts |-> 1, team |-> 1, player |-> 2, status |-> "IR"],
                  [id |-> 3, ts |-> 2, team |-> 1, player |-> 0, status |-> "PUP"]}}}

InitJoin ==
  /\ handler \in {"roster", "injuries"}
  /\ db \in JoinDbs(handler)
  /\ client = NoClient
  /\ req = NoRequest
  /\ resp = NoResponse
  /\ fetched = <<>>
  /\ log = <<>>
  /\ faults = Faults(NoEnv)
  /\ cache = {}
  /\ now = 0
  /\ pending = <<>>

\* The request arrives and runs up to Promise.all: the primary fetches are
\* done and every mapper has issued its lookup, in the order of the rows.
\* When the primary part yields no rows the response is sent at once.
JoinStart ==
  /\ ~client.done
  /\ client.pages = 0
  /\ \E perm \in Perms(IF handler = "roster" THEN db.rosters ELSE db.rows),
        failIds \in SUBSET (1..MaxId), e \in [1..2 -> {NoError, TimeoutError}] :
       \E q \in {[NoRequest EXCEPT !.team = IF handler = "roster" THEN <<>> ELSE TeamNYJ]},
          env \in {[NoEnv EXCEPT !.perm = perm, !.failIds = failIds,
                                 !.errs = IF handler = "roster"
                                          THEN [RostersVersion |-> e[1], Rosters |-> e[2]]
                                          ELSE [Teams |-> e[1], Injuries |-> e[2]]]} :
         \E run \in {IF handler = "roster" THEN Roster(q, db, env)
                     ELSE Injuries(q, db, env)} :
           /\ req' = q
           /\ faults' = Faults(env)
           /\ fetched' = run.fetched
           /\ log' = run.log
           /\ pending' = [i \in 1..Len(run.fetched) |->
                            [state |-> "pending", at |-> 0, value |-> Null]]
           /\ resp' = IF run.fetched = <<>> THEN run.resp ELSE NoResponse
           /\ client' = [client EXCEPT !.pages = 1, !.done = (run.fetched = <<>>)]
  /\ UNCHANGED <<cache, now, handler, db>>

\* The lookup of row i completes, whenever the store answers it, and the
\* mapper of row i returns its item.
JoinComplete(i) ==
  /\ i \in 1..Len(pending)
  /\ pending[i].state = "pending"
  /\ resp = NoResponse
  /\ \E env \in {[NoEnv EXCEPT !.failIds = faults.failIds]} :
       pending' = [pending EXCEPT
                     ![i] = [state |-> "fulfilled",
                             at |-> 1 + Cardinality({j \in 1..Len(pending) :
                                                      pending[j].state = "fulfilled"}),
                             value |-> IF handler = "roster"
                                       THEN FormatPlayer(fetched[i], db, env)
                                       ELSE MapInjury(fetched[i], req, db, env)]]
  /\ UNCHANGED <<cache, now, handler, db, client, req, resp, fetched, log, faults>>

\* Promise.all has resumed the handler: the response carries the values of
\* the promises in the order of the rows.  Reading the id of a value that
\* is not there yet would throw into the catch block of injuries.
JoinRespond ==
  /\ ~client.done
  /\ pending # <<>>
  /\ PromiseAll(pending)
  /\ \E values \in {[i \in 1..Len(pending) |-> pending[i].value]} :
       resp' = IF handler = "roster" THEN Ok(values)
               ELSE IF Last(pending).state # "fulfilled"
               THEN InjuriesCatch([code |-> "",
                                   msg |-> "Cannot read properties of undefined"])
               ELSE Page(values, InjuriesNextCursor(values))
  /\ client' = [client EXCEPT !.done = TRUE]
  /\ UNCHANGED <<cache, now, pending, handler, db, req, fetched, log, faults>>

SpecJoin ==
  InitJoin /\ [][JoinStart \/ (\E i \in 1..MaxId : JoinComplete(i)) \/ JoinRespond]_vars

\* ======================================================================
\* relatedArticles: the in-memory cache
\* ======================================================================
MaxClock == 5

CACHE_DURATION == 60 * 5 * 1000

RelatedLimit == 5

\* The clock is read in steps of a third of the cache duration.
ClockStep == CACHE_DURATION \div 3

\* A faulty variant of CacheFresh: an entry of exactly five minutes is fresh.
CacheFreshInclusive(entry, dateNow) == dateNow - entry.timestamp <= CACHE_DURATION

\* (Date.now() - cache[cacheKey].timestamp) < CACHE_DURATION
CacheFresh(entry, dateNow) == dateNow - entry.timestamp < CACHE_DURATION

\* relatedArticles at time dateNow with the cache c; the fetches take the
\* time took.  Yields the run and the cache it leaves.
RelatedArticles(q, d, env, c, dateNow, took) ==
  LET sourceArticleId == q.id
      cacheKey == <<"relatedArticles-">> \o ToStr(sourceArticleId)
      hit == {e \in c : e.key = cacheKey}
      vector == Single({v \in d.vectors : v.SourceArticle = sourceArticleId},
                       ErrOf(env, "ArticleVector"))
      relatedIds == vector.data.related
      limitedRelatedIds == Take(relatedIds, RelatedLimit)
      articlesError == ErrOf(env, "NewsArticles")
      matching == {a \in d.articles : a.SourceArticle \in Range(limitedRelatedIds)}
      typedArticles == SortDesc(matching, [a \in matching |-> <<0 - a.SourceArticle, 0>>])
      first == <<Fetch("ArticleVector", {sourceArticleId})>>
      second == first \o <<Fetch("NewsArticles", Range(limitedRelatedIds))>>
      stored == {e \in c : e.key # cacheKey}
                  \cup {[key |-> cacheKey, timestamp |-> dateNow + took,
                         data |-> typedArticles]}
      Leave(run, left) == [run |-> run, cache |-> left]
  IN IF q.method # "POST"
     THEN Leave(Run(Fail(405, "Method not allowed"), <<>>, <<>>), c)
     ELSE IF ~q.json
     THEN Leave(Run(Fail(400, "Invalid request format"), <<>>, <<>>), c)
     ELSE IF sourceArticleId = 0
     THEN Leave(Run(Fail(400, "sourceArticleId is required"), <<>>, <<>>), c)
     ELSE IF \E e \in hit : CacheFresh(e, dateNow)
     THEN Leave(Run(Ok((CHOOSE e \in hit : TRUE).data), <<>>, <<>>), c)
     ELSE IF vector.error.failed
     THEN Leave(Run(Fail(500, "Error fetching related articles"), <<>>, first), c)
     ELSE IF relatedIds = <<>>
     THEN Leave(Run(Ok(<<>>), <<vector.data>>, first), c)
     ELSE IF articlesError.failed
     THEN Leave(Run(Fail(500, "Error fetching news articles"), <<vector.data>>, second), c)
     ELSE Leave(Run(Ok(typedArticles), <<vector.data>>, second), stored)

\* ArticleVector rows with and without related ids, and the NewsArticles.
RelatedDb ==
  [vectors |-> {[SourceArticle |-> 1, related |-> <<2, 3>>],
                [SourceArticle |-> 2, related |-> <<1, 2, 3, 4, 5, 6>>],
                [SourceArticle |-> 3, related |-> <<>>]},
   articles |-> {[SourceArticle |-> n, headlineGerman |-> "de", headlineEnglish |-> "en"] :
                   n \in {1, 2, 3, 6}}]

InitRelated ==
  /\ handler = "relatedArticles"
  /\ db = RelatedDb
  /\ client = NoClient
  /\ req = [method |-> "POST", json |-> TRUE, id |-> 0]
  /\ resp = NoResponse
  /\ fetched = <<>>
  /\ log = <<>>
  /\ faults = Faults(NoEnv)
  /\ cache = {}
  /\ now = 0
  /\ pending = <<>>

\* One request, handled from its arrival to its response; the client notes
\* for every id the time of the last response that came with both fetches.
RelatedRequest ==
  /\ handler = "relatedArticles"
  /\ \E method \in {"POST", "GET"}, json \in BOOLEAN, id \in 0..4,
        e \in [1..2 -> {NoError, TimeoutError}], took \in {0, ClockStep} :
       \E q \in {[method |-> method, json |-> json, id |-> id]},
          env \in {[NoEnv EXCEPT !.errs = [ArticleVector |-> e[1], NewsArticles |-> e[2]]]} :
         \E r \in {RelatedArticles(q, db, env, cache, now, took)} :
           /\ (method = "GET" \/ ~json) => (id = 0 /\ took = 0)
           /\ now + took <= MaxClock * ClockStep
           /\ r.run.log = <<>> => took = 0
           /\ req' = q
           /\ faults' = Faults(env)
           /\ resp' = r.run.resp
           /\ fetched' = r.run.fetched
           /\ log' = r.run.log
           /\ cache' = r.cache
           /\ now' = now + took
           /\ client' =
                IF r.run.resp.status = 200 /\ Len(r.run.log) = 2
                THEN [client EXCEPT
                        !.visited = Append(SelectSeq(@, LAMBDA v : v.id # id),
                                           [id |-> id, at |-> now + took]),
                        !.pages = 1]
                ELSE [client EXCEPT !.pages = 1]
  /\ UNCHANGED <<pending, handler, db>>

\* Time passes between two requests.
Tick ==
  /\ handler = "relatedArticles"
  /\ now + ClockStep <= MaxClock * ClockStep
  /\ now' = now + ClockStep
  /\ UNCHANGED <<cache, pending, handler, db, client, req, resp, fetched, log, faults>>

SpecRelated == InitRelated /\ [][RelatedRequest \/ Tick]_vars

\* ======================================================================
\* Classification of store errors
\* ======================================================================
\* The store table whose fetch is the handler's primary one.
PrimaryTable(h) ==
  CASE h \in {"articlePreviews", "articlePreviewsServiceRole",
              "articlePreviewsTeam", "articleDetail"} -> "NewsArticles"
    [] h = "teamArticles" -> "TeamNewsArticles"
    [] h = "cluster_infos" -> "clusters"
    [] h = "clusterStories" -> "ClusterStories"
    [] h = "cluster_articles" -> "cluster_articles"
    [] h \in {"injuries", "injuriesJoin"} -> "Injuries"
    [] h = "news-ticker" -> "NewsTicker"
    [] h = "cluster_summary_by_id" -> "cluster_summary"
    [] h = "team_view_by_id" -> "cluster_team_view"

ErrHandlers ==
  PageHandlers \cup {"news-ticker", "articleDetail", "cluster_summary_by_id",
                     "team_view_by_id"}

\* The store of a handler: the paginated collections as before; for the
\* single-row handlers one row per id, with an image and a German
\* translation for the row of id 1.
ErrDb(h, base) ==
  IF h \in PageHandlers THEN PageDb(h, base)
  ELSE [rows |-> {[id |-> r.id, ts |-> r.ts, cluster |-> r.id, headline |-> "h",
                   content |-> "c", team |-> TeamNYJ] : r \in base},
        images |-> {[cluster |-> 1, image_url |-> "img"]},
        intl |-> {[parent |-> 1, lang |-> "de", headline |-> "hd", content |-> "cd"]},
        sevenDaysAgo |-> 2]

InitErr ==
  /\ handler \in ErrHandlers
  /\ \E base \in {{}, {[id |-> 1, ts |-> 1]}, {[id |-> 2, ts |-> 2]}} :
       db = ErrDb(handler, base)
  /\ client = NoClient
  /\ req = [cursor |-> <<>>, limit |-> <<>>, team |-> <<>>, id |-> <<>>]
  /\ resp = NoResponse
  /\ fetched = <<>>
  /\ log = <<>>
  /\ faults = Faults(NoEnv)
  /\ cache = {}
  /\ now = 0
  /\ pending = <<>>

\* One request to handler h, whose primary fetch the store answers with rows
\* or with one of its errors.
ErrRequest(h) ==
  /\ handler = h
  /\ \E id \in {<<>>, <<"1">>, <<"2">>, <<"x">>}, error \in {NoError} \cup StoreErrors,
        perm \in Perms(db.rows) :
       LET q == [cursor |-> <<>>, limit |-> <<>>, team |-> PageTeam(h), id |-> id]
           env == [NoEnv EXCEPT !.perm = perm,
                                !.errs = [t \in {PrimaryTable(h)} |-> error]]
           run == Handle(h, q, db, env)
       IN /\ req' = q
          /\ faults' = Faults(env)
          /\ resp' = run.resp
          /\ fetched' = run.fetched
          /\ log' = run.log
  /\ UNCHANGED <<cache, now, pending, handler, db, client>>

NextErr ==
  \/ ErrRequest("articlePreviews")
  \/ ErrRequest("articlePreviewsServiceRole")
  \/ ErrRequest("articlePreviewsTeam")
  \/ ErrRequest("teamArticles")
  \/ ErrRequest("cluster_infos")
  \/ ErrRequest("clusterStories")
  \/ ErrRequest("cluster_articles")
  \/ ErrRequest("injuries")
  \/ ErrRequest("injuriesJoin")
  \/ ErrRequest("news-ticker")
  \/ ErrRequest("articleDetail")
  \/ ErrRequest("cluster_summary_by_id")
  \/ ErrRequest("team_view_by_id")

SpecErr == InitErr /\ [][NextErr]_vars

\* ======================================================================
\* Properties of the pagination sessions (SpecPage)
\* ======================================================================
AllIds == {r.id : r \in db.rows}

TsOf(id) == (CHOOSE r \in db.rows : r.id = id).ts

\* The session returned every row of the collection exactly once.
ExactlyOnce == Len(client.visited) = Cardinality(AllIds) /\ Range(client.visited) = AllIds

\* The rows came in (timestamp desc, id desc) order.
InTsIdOrder ==
  \A i, j \in 1..Len(client.visited) :
    i < j => KeyBefore(<<TsOf(client.visited[i]), client.visited[i]>>,
                       <<TsOf(client.visited[j]), client.visited[j]>>)

\* The rows came in timestamp desc order.
InTsOrder ==
  \A i, j \in 1..Len(client.visited) :
    i < j => TsOf(client.visited[i]) >= TsOf(client.visited[j])

\* The limit in force for the last request.
DefaultLimit(h) ==
  CASE h \in {"articlePreviews", "articlePreviewsServiceRole"} -> ArticlePreviewsDefaultLimit
    [] h = "articlePreviewsTeam" -> ArticlePreviewsTeamDefaultLimit
    [] h = "teamArticles" -> TeamArticlesDefaultLimit
    [] h = "cluster_infos" -> ClusterInfosDefaultLimit
    [] h = "clusterStories" -> ClusterStoriesDefaultLimit
    [] h = "cluster_articles" -> ClusterArticlesDefaultLimit
    [] OTHER -> InjuriesDefaultLimit

ReqLimit == IF req.limit = <<>> THEN DefaultLimit(handler) ELSE ParseInt(req.limit).val

IdCursorHandlers ==
  {"articlePreviews", "articlePreviewsServiceRole", "articlePreviewsTeam",
   "teamArticles", "cluster_infos"}

\* C1 (as claimed): for the handlers that order by a timestamp but use the
\* last row's id as cursor, a finished session has returned every row exactly
\* once, in the handler's sort order.  The code violates it: a row with a
\* larger id and an older timestamp is filtered out by id < cursor.
C1_IdCursorVisitsAllOnce ==
  (handler \in IdCursorHandlers /\ client.done) =>
    /\ ExactlyOnce
    /\ IF handler = "cluster_infos" THEN InTsOrder ELSE InTsIdOrder

\* C2 (as claimed): a finished clusterStories session has returned every row
\* exactly once, in (updated_at desc, id desc) order, whatever order the store
\* gives rows with equal updated_at.  The code violates it: the query orders
\* by updated_at alone.
C2_ClusterStoriesVisitsAllOnce ==
  (handler = "clusterStories" /\ client.done) => (ExactlyOnce /\ InTsIdOrder)

\* C3 (as claimed): a finished cluster_articles session has returned every
\* row exactly once, also when rows share a created_at.  The code violates
\* it: created_at < cursor drops the rows that tie with the last row.
C3_ClusterArticlesVisitsAllOnce ==
  (handler = "cluster_articles" /\ client.done) => ExactlyOnce

FullPageHandlers ==
  {"articlePreviews", "articlePreviewsServiceRole", "articlePreviewsTeam",
   "clusterStories", "cluster_articles"}

CursorEncoding(h, row) ==
  CASE h = "clusterStories" -> ToStr(row.ts) \o <<"_">> \o ToStr(row.id)
    [] h = "cluster_articles" -> ToStr(row.ts)
    [] OTHER -> ToStr(row.id)

\* C4: in every 200 response of articlePreviews, clusterStories and
\* cluster_articles, nextCursor is non-null iff the primary fetch returned
\* exactly limit rows, and then it encodes the last fetched row.
C4_NextCursorIffFullPage ==
  (handler \in FullPageHandlers /\ resp.status = 200) =>
    /\ (resp.nextCursor # NoCursor) <=> (Len(fetched) = ReqLimit)
    /\ resp.nextCursor # NoCursor =>
         resp.nextCursor = CursorEncoding(handler, fetched[Len(fetched)])

\* C4 witness: clusterStories answered a full page of two rows with a cursor.
C4_Witness ==
  /\ handler = "clusterStories"
  /\ resp.status = 200
  /\ Len(fetched) = 2
  /\ ReqLimit = 2
  /\ resp.nextCursor # NoCursor

InjuriesHandlers == {"injuries", "injuriesJoin"}

\* C5 (as claimed): in the injuries handlers nextCursor is non-null iff the
\* page has exactly limit rows.  The code violates it: a short, non-empty
\* page carries a cursor.
C5_InjuriesCursorIffFullPage ==
  (handler \in InjuriesHandlers /\ resp.status = 200) =>
    ((resp.nextCursor # NoCursor) <=> (Len(resp.data) = ReqLimit))

\* ======================================================================
\* Properties of the language fallback handlers (SpecLang)
\* ======================================================================
\* The value of a field after a per-field fallback to the base row.
FallbackField(local, base) == IF local \in {Null, ""} THEN base ELSE local

\* C6 (as claimed): in story_line_view_by_id, when the translation row of the
\* requested non-English language was fetched, each of headline, introduction
\* and content falls back to the English value on its own when the translated
\* field is null or empty.  The code violates it: it returns the translation
\* row as it is and never reads the English row.
C6_PerFieldFallback ==
  \A t \in db.int, v \in db.view :
    (/\ handler = "story_line_view_by_id"
     /\ resp.status = 200
     /\ req.lang = t.lang
     /\ req.id = ToStr(t.view_id)
     /\ v.id = t.view_id
     /\ log[1].table = "story_line_view_int"
     /\ Len(log) = 1) =>
      /\ v.headline # Null =>
           resp.data.headline = FallbackField(t.headline, v.headline)
      /\ v.introduction # Null =>
           resp.data.introduction = FallbackField(t.introduction, v.introduction)
      /\ v.content # Null =>
           resp.data.content = FallbackField(t.content, v.content)

\* ======================================================================
\* Properties of cluster_timeline (SpecTimeline)
\* ======================================================================
\* C7 (as claimed): in cluster_timeline, when the timeline was found and is
\* well formed but the SourceArticles fetch fails, the response is still 200
\* with the timeline name and every entry's date and headline, each entry
\* with an empty articles list.  The code violates it: it answers 500.
C7_SourceFailureStill200 ==
  (/\ handler = "cluster_timeline"
   /\ log # <<>>
   /\ Last(log).table = "SourceArticles"
   /\ faults.errs.SourceArticles.failed) =>
    /\ resp.status = 200
    /\ resp.data = EnrichedTimeline(fetched[1], {})

\* ======================================================================
\* Properties of cluster_articles' secondary lookups (SpecArticles)
\* ======================================================================
\* C8: in cluster_articles, when the primary fetch returned at least one row,
\* a failure of the cluster_article_int fetch and/or of the SourceArticles
\* fetch still gives a 200 response with one item per primary row, in fetch
\* order, carrying the row's English fields; sources is empty when the
\* SourceArticles fetch failed and no language-specific key is present when
\* the cluster_article_int fetch failed.
C8_SecondaryFailureStill200 ==
  (/\ handler = "cluster_articles"
   /\ fetched # <<>>
   /\ (faults.errs.cluster_article_int.failed \/ faults.errs.SourceArticles.failed)) =>
    /\ resp.status = 200
    /\ Len(resp.data) = Len(fetched)
    /\ \A i \in 1..Len(fetched) :
         /\ resp.data[i].id = fetched[i].id
         /\ resp.data[i].english_headline = fetched[i].headline
         /\ resp.data[i].english_summary = fetched[i].summary
         /\ resp.data[i].english_content = fetched[i].content
         /\ faults.errs.SourceArticles.failed => resp.data[i].sources = <<>>
         /\ faults.errs.cluster_article_int.failed => resp.data[i].intl = {}

\* Both secondary fetches fail for a page whose row has a translation and
\* named sources in the store.
C8_Witness ==
  /\ handler = "cluster_articles"
  /\ fetched # <<>>
  /\ faults.errs.cluster_article_int.failed
  /\ faults.errs.SourceArticles.failed
  /\ resp.status = 200
  /\ \E i \in 1..Len(fetched) :
       /\ \E t \in db.intl : t.article = fetched[i].id
       /\ \E s \in db.sources : s.id \in Range(fetched[i].srcIds) /\ s.name # Null
       /\ resp.data[i].sources = <<>>
       /\ resp.data[i].intl = {}

\* ======================================================================
\* Properties of the error classification (SpecErr)
\* ======================================================================
\* C9 (as claimed): for every handler, a failed primary fetch is answered
\* 401 or 403 when the failure is permission/JWT-related (code PGRST301,
\* HTTP 401/403 from the store, or a message containing 'JWT') and 500 for
\* every other store error.  The code violates it: several handlers answer
\* 500 to an authorization failure, and news-ticker answers 400 to any error.
C9_AuthFailures401Or403 ==
  LET error == ErrOf(faults, PrimaryTable(handler))
      isAuth == error.code = "PGRST301" \/ error.http \in {401, 403}
                  \/ IncludesJWT(error.msg)
  IN (/\ handler \in ErrHandlers
      /\ log # <<>>
      /\ Last(log).table = PrimaryTable(handler)
      /\ error.failed) =>
       IF isAuth THEN resp.status \in {401, 403} ELSE resp.status = 500

\* C10 (as claimed): in cluster_summary_by_id and team_view_by_id, a lookup by
\* cluster_id that matches no row, with the store otherwise healthy, is
\* answered 404.  The code violates it: .single() reports the empty match as
\* the error PGRST116, and the handlers answer every error with 500.
C10_ZeroRowsIs404 ==
  (/\ handler \in {"cluster_summary_by_id", "team_view_by_id"}
   /\ log # <<>>
   /\ ~ErrOf(faults, PrimaryTable(handler)).failed
   /\ {r \in db.rows : ToStr(r.cluster) = req.id} = {}) =>
    resp.status = 404

\* ------------------------------------------- one request, any parameters
\* A single request to a paginated handler with an arbitrary cursor and
\* limit parameter, over a store whose secondary lookups may fail for some
\* of the rows.
ReqCursors ==
  {<<>>, <<"1">>, <<"2">>, <<"-", "1">>, <<"x">>, <<"1", "x">>, <<"_", "1">>,
   <<"1", "_">>, <<"1", "_", "1">>, <<"1", "_", "2">>, <<"2", "_", "3">>,
   <<"1", "_", "1", "_", "1">>}

ReqLimits ==
  {<<>>, <<"1">>, <<"2">>, <<"0">>, <<"-", "1">>, <<"x">>, <<"5", "1">>,
   <<"1", "0", "1">>}

InitReq ==
  /\ handler \in PageHandlers
  /\ \E base \in {{}, {[id |-> 1, ts |-> 1], [id |-> 2, ts |-> 1]},
                   {[id |-> 2, ts |-> 10], [id |-> 13, ts |-> 10]}} :
       db = PageDb(handler, base)
  /\ client = [cursor |-> NoCursor, limit |-> <<>>, visited |-> <<>>,
               pages |-> 0, empties |-> 0, done |-> FALSE]
  /\ req = NoRequest
  /\ resp = NoResponse
  /\ fetched = <<>>
  /\ log = <<>>
  /\ faults = Faults(NoEnv)
  /\ cache = {}
  /\ now = 0
  /\ pending = <<>>

\* The one request of the client, handled by h.
ReqRequest(h) ==
  /\ handler = h
  /\ ~client.done
  /\ \E cursor \in ReqCursors, limit \in ReqLimits,
        failIds \in SUBSET {r.id : r \in db.rows}, perm \in Perms(db.rows) :
       LET q == [cursor |-> cursor, limit |-> limit, team |-> PageTeam(h)]
           env == [NoEnv EXCEPT !.perm = perm, !.failIds = failIds]
           run == Handle(h, q, db, env)
       IN /\ req' = q
          /\ faults' = Faults(env)
          /\ resp' = run.resp
          /\ fetched' = run.fetched
          /\ log' = run.log
          /\ client' = [client EXCEPT !.cursor = cursor, !.limit = limit,
                                       !.pages = 1, !.done = TRUE]
  /\ UNCHANGED <<cache, now, pending, handler, db>>

NextReq ==
  \/ ReqRequest("articlePreviews")
  \/ ReqRequest("articlePreviewsServiceRole")
  \/ ReqRequest("articlePreviewsTeam")
  \/ ReqRequest("teamArticles")
  \/ ReqRequest("cluster_infos")
  \/ ReqRequest("clusterStories")
  \/ ReqRequest("cluster_articles")
  \/ ReqRequest("injuries")
  \/ ReqRequest("injuriesJoin")

SpecReq == InitReq /\ [][NextReq]_vars

\* C11 (as claimed): two executions of the same request that differ only in
\* the message text of the store's error end with the same status and the
\* same body; no failure body carries the store's message.  The code
\* violates it: several handlers copy the message into the body.
C11_MessageIndependence ==
  LET error == ErrOf(faults, PrimaryTable(handler))
      other(m, perm) ==
        [NoEnv EXCEPT !.perm = perm,
                      !.errs = [t \in {PrimaryTable(handler)} |->
                                  [error EXCEPT !.msg = m]]]
  IN (/\ handler \in ErrHandlers
      /\ log # <<>>
      /\ Last(log).table = PrimaryTable(handler)
      /\ error.failed) =>
       \A m \in {e.msg : e \in StoreErrors}, perm \in Perms(db.rows) :
         Handle(handler, req, db, other(m, perm)).resp = resp

\* C12 (as claimed): in articlePreviews, teamArticles and injuries a cursor
\* parameter that is present and is not a non-negative decimal number is
\* answered with 400 and no fetch is issued.  The code violates it: parseInt
\* accepts "-1" and "1x", and only NaN is rejected.
C12_BadIdCursorIs400 ==
  (/\ client.done
   /\ handler \in {"articlePreviews", "teamArticles", "injuries"}
   /\ req.cursor # <<>>
   /\ ~IsNumeric(req.cursor)) =>
     (resp.status = 400 /\ log = <<>>)

\* C13 (as claimed): in clusterStories a cursor that does not split on "_"
\* into exactly two non-empty parts is answered with 400 and the primary
\* fetch is not executed.  The code violates it: only the number of parts is
\* checked, so "_1" and "1_" reach the store.
C13_BadCompositeCursorIs400 ==
  LET parts == Split(req.cursor, "_")
  IN (/\ client.done
      /\ handler = "clusterStories"
      /\ req.cursor # <<>>
      /\ (Len(parts) # 2 \/ parts[1] = <<>> \/ parts[2] = <<>>)) =>
        (resp.status = 400 /\ log = <<>>)

\* C14: the nextCursor that clusterStories emits for the last row of a full
\* page splits on "_" into exactly two parts that read back as that row's
\* updated_at and id, and the same handler accepts it as a cursor.
C14_CursorRoundTrip ==
  (/\ client.done
   /\ handler = "clusterStories"
   /\ resp.status = 200
   /\ resp.nextCursor # NoCursor) =>
     LET parts == Split(resp.nextCursor, "_")
         k == fetched[Len(fetched)]
     IN /\ Len(parts) = 2
        /\ IsNumeric(parts[1]) /\ ParseInt(parts[1]).val = k.ts
        /\ IsNumeric(parts[2]) /\ ParseInt(parts[2]).val = k.id
        /\ \A perm \in Perms(db.rows) :
             LET next == Handle(handler, [req EXCEPT !.cursor = resp.nextCursor],
                                db, [NoEnv EXCEPT !.perm = perm])
             IN /\ next.resp.status = 200
                /\ \A i \in 1..Len(next.fetched) :
                     \/ next.fetched[i].ts < k.ts
                     \/ next.fetched[i].ts = k.ts /\ next.fetched[i].id < k.id

\* C14 witness: the cursor of a full page whose last row has id 13 and
\* updated_at 10.
C14_Witness ==
  /\ client.done
  /\ handler = "clusterStories"
  /\ resp.status = 200
  /\ resp.nextCursor = <<"1", "0", "_", "1", "3">>
  /\ fetched[Len(fetched)].id = 13

\* C15 (as claimed): whenever a paginated handler issues its primary fetch,
\* the limit applied to it is an integer within 1..MAX, MAX being 50 for
\* clusterStories and 100 for the others.  The code violates it:
\* articlePreviews, teamArticles and injuries have no upper bound.
C15_LimitWithinBounds ==
  LET limit == ParseLimit(req.limit, DefaultLimit(handler))
      max == IF handler = "clusterStories" THEN ClusterStoriesMaxLimit
             ELSE ArticlePreviewsTeamMaxLimit
  IN (/\ client.done
      /\ \E i \in 1..Len(log) : log[i].table = PrimaryTable(handler)) =>
        (~limit.nan /\ limit.val \in 1..max)

\* C16 (as claimed): clusterStories and injuries issue at most one secondary
\* fetch per referenced collection for one request, however many primary
\* rows there are.  The code violates it: the lookup is inside the loop over
\* the rows, one fetch per row.
C16_OneBatchedSecondaryFetch ==
  LET secondary == IF handler = "clusterStories" THEN "SourceArticles" ELSE "Player"
  IN (client.done /\ handler \in {"clusterStories", "injuries"}) =>
       Cardinality({i \in 1..Len(log) : log[i].table = secondary}) <= 1

\* C20 (as claimed): every 200 response of clusterStories carries exactly one
\* item per row of the primary fetch, in fetch order, whether or not a
\* story's SourceArticles lookup fails; with a non-null nextCursor it carries
\* exactly limit items.  The code violates it: a story whose lookup fails is
\* skipped.
C20_OneItemPerFetchedRow ==
  (client.done /\ handler = "clusterStories" /\ resp.status = 200) =>
    /\ ItemIds(resp.data) = ItemIds(fetched)
    /\ resp.nextCursor # NoCursor => Len(resp.data) = ReqLimit

\* C17 (as claimed): a request in the base language "en" to
\* story_line_view_by_id, story_lines or story_detail issues no fetch against
\* a translation (*_int) table.  The code violates it: story_lines starts
\* with a fetch of cluster_article_int for every language.
C17_NoIntFetchForEnglish ==
  (client.done /\ handler \in {"story_lines", "story_detail", "story_line_view_by_id"} /\ req.lang = "en") =>
    \A i \in 1..Len(log) :
      log[i].table \notin {"cluster_article_int", "story_line_view_int"}

C19_OnlyPublishedInsertsNotify ==
  (/\ client.done
   /\ handler = "sendPushNotification"
   /\ ~(/\ req.method = "POST"
        /\ req.type = "INSERT"
        /\ req.table = "NewsArticles"
        /\ req.hasRecord
        /\ req.release = "PUBLISHED"
        /\ req.team # 0)) =>
     log = <<>>

\* C21: a clusterStories request with a cursor (T, I) that is answered with
\* 200 fetched only rows r with r.updated_at < T, or r.updated_at = T and
\* r.id < I, and as many of them as the limit allows: the row whose key
\* equals the cursor is never fetched and no row after the cursor is left
\* out by the filter.
C21_FilterSelectsRowsAfterCursor ==
  (/\ handler = "clusterStories"
   /\ client.done
   /\ resp.status = 200
   /\ req.cursor # NoCursor) =>
     LET parts == Split(req.cursor, "_")
         T == ParseInt(parts[1]).val
         I == ParseInt(parts[2]).val
         after == {r \in db.rows : r.ts < T \/ (r.ts = T /\ r.id < I)}
     IN /\ Range(fetched) \subseteq after
        /\ Len(fetched) = Min(ReqLimit, Cardinality(after))
        /\ \A r \in Range(fetched) : ~(r.ts = T /\ r.id = I)

\* C21 witness: a clusterStories request with cursor 1_2 over two rows that
\* share the timestamp 1: the row with id 1 is fetched, the row at the
\* cursor is not.
C21_Witness ==
  /\ handler = "clusterStories"
  /\ client.done
  /\ resp.status = 200
  /\ req.cursor = <<"1", "_", "2">>
  /\ \E r \in db.rows : r.ts = 1 /\ r.id = 2
  /\ Len(fetched) = 1
  /\ fetched[1].id = 1
  /\ fetched[1].ts = 1

\* C22: a cluster_articles request with a non-empty page issues at most one
\* SourceArticles fetch and at most one cluster_article_int fetch, and the
\* id list of the SourceArticles fetch has no duplicates and holds exactly
\* the source_article_ids that occur in the rows of the page.
C22_OneSourceFetchWithDistinctIds ==
  (handler = "cluster_articles" /\ fetched # <<>>) =>
    LET sourceFetches == SelectSeq(log, LAMBDA f : f.table = "SourceArticles")
        intFetches == SelectSeq(log, LAMBDA f : f.table = "cluster_article_int")
        pageIds == UNION {Range(fetched[i].srcIds) : i \in 1..Len(fetched)}
    IN /\ Len(sourceFetches) <= 1
       /\ Len(intFetches) <= 1
       /\ \A k \in 1..Len(sourceFetches) :
            LET ids == sourceFetches[k].ids
            IN /\ Range(ids) = pageIds
               /\ \A i, j \in 1..Len(ids) : i # j => ids[i] # ids[j]

\* C22 witness: a page of two rows that share a source article id; the one
\* SourceArticles fetch names each of the two ids once.
C22_Witness ==
  /\ handler = "cluster_articles"
  /\ Len(fetched) = 2
  /\ Range(fetched[1].srcIds) \cap Range(fetched[2].srcIds) # {}
  /\ \E k \in 1..Len(log) :
       /\ log[k].table = "SourceArticles"
       /\ Len(log[k].ids) = 2
  /\ resp.status = 200

\* C23: for a request in a language other than "en", every text of
\* story_detail (headline, summary, content) and the headline of every
\* story_lines item is the translation's field when the translation fetch
\* succeeded, a translation row exists and that field is neither null nor
\* empty, and the English field otherwise; a missing translation row or a
\* failed translation fetch leaves the response at 200.
C23_PerFieldTranslationFallback ==
  LET Translation(article) ==
        IF faults.errs.cluster_article_int.failed THEN {}
        ELSE {t \in db.intl : t.article = article.id /\ t.lang = req.lang}
      Expected(article, f) ==
        IF \E t \in Translation(article) : t[f] \notin {Null, ""}
        THEN (CHOOSE t \in Translation(article) : TRUE)[f]
        ELSE article[f]
      baseOk == ~faults.errs.clusters.failed /\ ~faults.errs.cluster_articles.failed
  IN /\ (/\ handler = "story_detail"
         /\ client.done
         /\ req.lang \notin {"", "en"}
         /\ baseOk
         /\ \E r \in db.rows : ToStr(r.cluster) = req.id) =>
           /\ resp.status = 200
           /\ Len(fetched) = 1
           /\ \A f \in {"headline", "summary", "content"} :
                resp.data[f] = Expected(fetched[1], f)
     /\ (/\ handler = "story_lines"
         /\ client.done
         /\ req.lang \notin {"", "en"}
         /\ baseOk
         /\ req.page \in {<<>>, <<"1">>}) =>
           /\ resp.status = 200
           /\ Len(resp.data.items) = Len(fetched)
           /\ \A i \in 1..Len(fetched) :
                resp.data.items[i].headline = Expected(fetched[i], "headline")

\* C23 witness: a German story_detail request whose translation row has an
\* empty headline, a null summary and a content: the response mixes the
\* English headline and summary with the German content.
C23_Witness ==
  /\ handler = "story_detail"
  /\ client.done
  /\ req.lang = "de"
  /\ resp.status = 200
  /\ ~faults.errs.cluster_article_int.failed
  /\ Len(fetched) = 1
  /\ \E t \in db.intl :
       /\ t.article = fetched[1].id
       /\ t.headline = ""
       /\ t.content = "cd"
       /\ resp.data.headline = fetched[1].headline
       /\ resp.data.summary = fetched[1].summary
       /\ resp.data.content = "cd"

\* C24 (as claimed): for a request in a language other than "en", a failed
\* timelines_int fetch ends with the status of the case where timelines_int
\* has no matching row: 200 when the timelines table has a record for the
\* cluster, 404 when it has none, never a 5xx.  The code violates it: the
\* error of the timelines_int fetch is kept and turns the 404 into a 500.
C24_IntErrorLikeNoRow ==
  (/\ handler = "timeline_by_cluster_id"
   /\ client.done
   /\ req.id # ""
   /\ req.lang \notin {"", "en"}
   /\ faults.errs.timelines_int.failed
   /\ ~faults.errs.timelines.failed) =>
     LET base == {r \in db.timelines : r.cluster = req.id}
     IN /\ (\E r \in base : r.parses) => resp.status = 200
        /\ base = {} => resp.status = 404
        /\ (\A r \in base : r.parses) => resp.status < 500

\* C25 (as claimed): a cluster_timeline request whose fetches against the
\* timelines table fail ends with a 5xx response, never with 404, and the
\* first failed lookup is followed by no further lookup.  The code violates
\* it: every approach swallows its error and the request ends with 404
\* after all the lookups were tried.
C25_FailedTimelinesFetchIs5xx ==
  (/\ handler = "cluster_timeline"
   /\ resp.status # 0
   /\ req.cluster_id # ""
   /\ faults.errs.timelines.failed) =>
     /\ resp.status >= 500
     /\ Len(SelectSeq(log, LAMBDA f : f.table = "timelines")) <= 2

\* C26 (as claimed): a request without its required filter parameter (teamId
\* for teamArticles, language_code for story_lines, conference or division
\* for standings of type conference or division) is answered 400 whatever
\* the store holds or answers, and no fetch is issued before the 400.  The
\* code violates it: standings checks the parameters after its two fetches.
C26_MissingParameterIs400 ==
  LET missing ==
        CASE handler = "teamArticles" -> req.team = <<>>
          [] handler = "story_lines" -> req.lang = ""
          [] handler = "standings" ->
               \/ ToLowerCase(req.type) = "conference" /\ req.conference = ""
               \/ /\ ToLowerCase(req.type) = "division"
                  /\ (req.conference = "" \/ req.division = "")
          [] OTHER -> FALSE
  IN (client.done /\ missing) => (resp.status = 400 /\ log = <<>>)

\* C27: in roster and injuries the response is sent only after the lookup
\* of every row has completed, in whatever order they complete; item i of
\* the response is built from row i and from the result of row i's own
\* lookup, and a failed lookup leaves only that row's reference null.
C27_JoinWaitsForAllLookups ==
  (handler \in {"roster", "injuries"} /\ resp # NoResponse /\ fetched # <<>>) =>
    /\ \A i \in 1..Len(pending) : pending[i].state = "fulfilled"
    /\ resp.status = 200
    /\ Len(resp.data) = Len(fetched)
    /\ \A i \in 1..Len(fetched) :
         LET row == fetched[i]
             item == resp.data[i]
             lookupFailed == row.id \in faults.failIds
         IN IF handler = "roster"
            THEN /\ item.name = row.name
                 /\ item.teamId =
                      (IF lookupFailed \/ ~\E t \in db.teams : t.id = row.teamId
                       THEN Null
                       ELSE (CHOOSE t \in db.teams : t.id = row.teamId).teamId)
            ELSE /\ item.id = row.id
                 /\ item.playerName =
                      (IF lookupFailed \/ ~\E p \in db.players : p.id = row.player
                       THEN Null
                       ELSE (CHOOSE p \in db.players : p.id = row.player).name)

\* C27 witness: a roster response for two players whose lookups completed
\* in reverse order; the lookup of the first failed, that of the second
\* found its team.
C27_Witness ==
  /\ handler = "roster"
  /\ resp.status = 200
  /\ Len(fetched) = 2
  /\ pending[1].at = 2
  /\ pending[2].at = 1
  /\ fetched[1].id \in faults.failIds
  /\ fetched[2].id \notin faults.failIds
  /\ resp.data[1].teamId = Null
  /\ resp.data[2].teamId # Null

\* The cache key of an id, and the responses with both fetches that the
\* client has noted for it.
RelatedKey(id) == <<"relatedArticles-">> \o ToStr(id)

RelatedStored(id) == {v \in Range(client.visited) : v.id = id}

\* Every cache entry was stored by a response that came with both fetches.
RelatedEntriesStored ==
  \A e \in cache : \E id \in 1..4 :
    /\ e.key = RelatedKey(id)
    /\ \E v \in RelatedStored(id) : v.at = e.timestamp
    /\ Cardinality({x \in cache : x.key = e.key}) = 1

\* A request step that answers from the cache finds a fresh success of the
\* same id; a step that changes the cache is a success that stores its own
\* entry and leaves the other entries alone.
RelatedRequestStep ==
  /\ (/\ handler = "relatedArticles"
      /\ <<req, resp, log, cache>>' # <<req, resp, log, cache>>
      /\ resp'.status = 200
      /\ log' = <<>>) =>
        \E v \in RelatedStored(req'.id) : v.at <= now' /\ now' - v.at < CACHE_DURATION
  /\ cache' # cache =>
       /\ resp'.status = 200
       /\ Len(log') = 2
       /\ ~faults'.errs.ArticleVector.failed
       /\ ~faults'.errs.NewsArticles.failed
       /\ fetched'[1].related # <<>>
       /\ \E e \in cache' :
            /\ e.key = RelatedKey(req'.id)
            /\ e.timestamp = now'
            /\ cache' \ {e} = {x \in cache : x.key # e.key}

\* C28: relatedArticles answers from its cache (200 without any fetch) only
\* when a response for the same sourceArticleId came with both fetches
\* less than five minutes earlier, and every cache entry was stored by
\* such a response: error responses and the response for an empty related
\* list store nothing, and an entry changes only with a later successful
\* fetch.
C28_CacheOnlyFreshSuccesses ==
  /\ [](handler = "relatedArticles" => RelatedEntriesStored)
  /\ [][RelatedRequestStep]_vars

\* C28 witness: a request answered from the cache two thirds of the cache
\* duration after the entry of its id was stored.
C28_Witness ==
  /\ handler = "relatedArticles"
  /\ client.pages = 1
  /\ resp.status = 200
  /\ log = <<>>
  /\ resp.data # <<>>
  /\ \E e \in cache :
       /\ e.key = <<"relatedArticles-">> \o ToStr(req.id)
       /\ now - e.timestamp = 2 * ClockStep

\* C29 (as claimed): the counts that sendPushNotification reports satisfy
\* Success + Failed = number of target tokens, Success is the number of
\* tokens whose FCM send returned success, and every token whose send
\* returned a non-ok status or hit a network error is counted in Failed.
\* The code violates it: it counts settled promises, and sendFcmMessage
\* never rejects, so every send is counted as a success.
C29_CountsMatchSendResults ==
  (/\ handler = "sendPushNotification"
   /\ client.done
   /\ req.method = "POST"
   /\ resp.status = 200) =>
     LET sent == {log[i].ids : i \in {k \in 1..Len(log) : log[k].table = "FCM"}}
         failedTokens == {{r.token} : r \in {x \in db.rows : x.id \in faults.failIds}}
     IN /\ resp.data.success + resp.data.failed = resp.data.attempted
        /\ resp.data.attempted = Cardinality(sent)
        /\ resp.data.success = Cardinality(sent \ failedTokens)
        /\ resp.data.failed = Cardinality(sent \cap failedTokens)

\* C30 (as claimed): for every value of the page parameter of story_lines
\* (absent, positive, zero, negative or non-numeric) the effective page is
\* an integer >= 1 and the range fetch starts at (page - 1) * 25 >= 0, so
\* with a healthy store the fetch fails at most because that offset lies
\* beyond the rows; in every 200 response the page is >= 1, and in every
\* non-empty one hasNext is true iff page * 25 < total and hasPrev iff
\* page > 1.  The code violates it: a non-numeric page makes the page and
\* the offset NaN, the store rejects the range and the answer is 500.
C30_EffectivePageIsPositive ==
  (/\ handler = "story_lines"
   /\ client.done
   /\ req.lang # ""
   /\ ~faults.errs.clusters.failed
   /\ ~faults.errs.cluster_articles.failed) =>
     LET cherry == {c.cluster_id : c \in {x \in db.clusters : x.cherry_pick}}
         total == Cardinality({r \in db.rows : r.cluster \in cherry})
         parsed == ParseInt(req.page)
     IN /\ resp.status \in {200, 500}
        /\ resp.status = 500 =>
             /\ req.page # <<>>
             /\ ~parsed.nan
             /\ (parsed.val - 1) * StoryLinesLimit > total
        /\ resp.status = 200 =>
             /\ resp.data.pagination.page >= 1
             /\ resp.data.pagination.limit = StoryLinesLimit
             /\ resp.data.items # <<>> =>
                  /\ resp.data.pagination.hasNext
                       <=> (resp.data.pagination.page * StoryLinesLimit < total)
                  /\ resp.data.pagination.hasPrev <=> (resp.data.pagination.page > 1)

====
